---- MODULE Spec2Model ----
(***************************************************************************)
(* A model of the summarisation and QA-annotation engine of                *)
(* src/QA_report.py: join_tables_generic, filter_df,                       *)
(* generate_effort_summaries (grouping, flattening, QA rules) and the      *)
(* per-group loop of main.                                                  *)
(*                                                                         *)
(* A pandas DataFrame is a record [cols, rows]: cols is the sequence of    *)
(* column names, rows a sequence of functions from column name to cell.    *)
(* A cell is a record [k, n, d, s]: a null (NaN/None), a rational number   *)
(* n/d in lowest terms, or a string s.                                      *)
(***************************************************************************)
EXTENDS Integers, Sequences, FiniteSets, TLC

VARIABLES
    pc,              \* position of the running function
    dfs,             \* table name -> DataFrame, the workbook tables of one group
    joins_required,  \* ordered mapping left table name -> join info
    joined_dfs,      \* table name -> DataFrame, built by join_tables_generic
    ji,              \* number of JoinSpecs consumed by the loop of line 95
    joinlog,         \* the merges executed, with the operands they used
    diag,            \* the diagnostics printed so far
    groups,          \* workbook_data: the workbook tables of each group, in order
    gi,              \* number of groups main has finished
    summaries_config,\* config.data_summary_definitions, shared by all groups
    config0,         \* the SummaryDefs as they were declared
    joined0,         \* joined_dfs as join_tables_generic returned it
    si,              \* number of SummaryDefs consumed by the loop of line 421
    summary_tables,  \* summary name -> (table name, summary_df), in order
    cur,             \* the SummaryDef in progress: its work record and QA state
    delivered        \* the data_summaries main handed to plots and reports

joinVars == <<dfs, joins_required, joined_dfs, ji, joinlog>>

sumVars == <<groups, gi, summaries_config, config0, joined0, si, summary_tables,
             cur, delivered>>

vars == <<pc, diag, joinVars, sumVars>>

(***************************************************************************)
(* Generic helpers                                                         *)
(***************************************************************************)
Range(s) == {s[i] : i \in 1..Len(s)}

RECURSIVE SeqFilter(_, _)
\* the subsequence of s whose elements are in the set keep
SeqFilter(s, keep) ==
    IF s = <<>> THEN <<>>
    ELSE IF Head(s) \in keep THEN <<Head(s)>> \o SeqFilter(Tail(s), keep)
         ELSE SeqFilter(Tail(s), keep)

RECURSIVE Flatten(_)
\* concatenation of a sequence of sequences
Flatten(ss) == IF ss = <<>> THEN <<>> ELSE Head(ss) \o Flatten(Tail(ss))

Abs(i) == IF i < 0 THEN -i ELSE i

\* the numbers of a set in increasing order
SeqOfSet(S) ==
    [i \in 1..Cardinality(S) |->
        CHOOSE m \in S : Cardinality({o \in S : o < m}) = i - 1]

RECURSIVE GCD(_, _)
GCD(a, b) == IF b = 0 THEN a ELSE GCD(b, a % b)

(***************************************************************************)
(* Cells                                                                   *)
(***************************************************************************)
Null == [k |-> "null", n |-> 0, d |-> 1, s |-> ""]

\* the rational a/b (b > 0) in lowest terms
Frac(a, b) ==
    LET g == GCD(Abs(a), b)
    IN  [k |-> "num", n |-> a \div g, d |-> b \div g, s |-> ""]

Num(i) == [k |-> "num", n |-> i, d |-> 1, s |-> ""]

Str(x) == [k |-> "str", n |-> 0, d |-> 1, s |-> x]

IsNull(v) == v.k = "null"

IsNum(v) == v.k = "num"

\* the characters of cell strings, in code-point order
CharOrder == " -.0123456789;ABCDEFGHIJKLMNOPQRSTUVWXYZ_abcdefghijklmnopqrstuvwxyz"

CharRank(c) == CHOOSE i \in 1..Len(CharOrder) : SubSeq(CharOrder, i, i) = c

RECURSIVE StrLess(_, _)
\* Python's < on two strings
StrLess(x, y) ==
    IF y = "" THEN FALSE
    ELSE IF x = "" THEN TRUE
    ELSE IF SubSeq(x, 1, 1) = SubSeq(y, 1, 1)
         THEN StrLess(SubSeq(x, 2, Len(x)), SubSeq(y, 2, Len(y)))
         ELSE CharRank(SubSeq(x, 1, 1)) < CharRank(SubSeq(y, 1, 1))

\* pandas' order of keys: numbers, then strings, then nulls
CellLess(a, b) ==
    CASE IsNum(a) /\ IsNum(b) -> a.n * b.d < b.n * a.d
      [] IsNum(a) -> TRUE
      [] a.k = "str" /\ b.k = "str" -> StrLess(a.s, b.s)
      [] a.k = "str" -> IsNull(b)
      [] OTHER -> FALSE

RECURSIVE TupleLess(_, _)
\* lexicographic order of two key tuples of the same length
TupleLess(x, y) ==
    IF x = <<>> THEN FALSE
    ELSE IF Head(x) = Head(y) THEN TupleLess(Tail(x), Tail(y))
         ELSE CellLess(Head(x), Head(y))

(***************************************************************************)
(* DataFrames                                                              *)
(***************************************************************************)
Cols(df) == Range(df.cols)

\* the key tuple of a row over the columns on
KeyOf(row, on) == [i \in 1..Len(on) |-> row[on[i]]]

RECURSIVE InsertByKey(_, _, _)
\* row put into the key-sorted sequence, after the rows with an equal key
InsertByKey(sorted, row, on) ==
    IF sorted = <<>> THEN <<row>>
    ELSE IF TupleLess(KeyOf(row, on), KeyOf(Head(sorted), on))
         THEN <<row>> \o sorted
         ELSE <<Head(sorted)>> \o InsertByKey(Tail(sorted), row, on)

RECURSIVE SortByKey(_, _)
\* a stable sort of rows by their key tuple
SortByKey(rows, on) ==
    IF rows = <<>> THEN <<>>
    ELSE InsertByKey(SortByKey(SubSeq(rows, 1, Len(rows) - 1), on), rows[Len(rows)], on)

(***************************************************************************)
(* pd.merge(left_df, right_df, on=on_cols, how=how), QA_report.py line 122 *)
(***************************************************************************)
\* a column that both sides hold and that is no key gets a suffix
SuffixCol(c, overlap, suffix) == IF c \in overlap THEN c \o suffix ELSE c

\* pandas raises KeyError when a key column is missing on either side
MergeRaises(left, right, on) ==
    \E c \in Range(on) : c \notin Cols(left) \/ c \notin Cols(right)

MergeOverlap(left, right, on) == (Cols(left) \cap Cols(right)) \ Range(on)

\* the columns of the merged frame: the left ones, then the right ones but the keys
MergeCols(left, right, on) ==
    LET ov == MergeOverlap(left, right, on)
        rc == SeqFilter(right.cols, Cols(right) \ Range(on))
    IN  [i \in 1..Len(left.cols) |-> SuffixCol(left.cols[i], ov, "_x")]
        \o [i \in 1..Len(rc) |-> SuffixCol(rc[i], ov, "_y")]

\* one merged row from left row l (when hasL) and right row r (when hasR)
MergeRow(left, right, on, l, r, hasL, hasR) ==
    LET ov == MergeOverlap(left, right, on)
        lpart == [nm \in {SuffixCol(c, ov, "_x") : c \in Cols(left)} |->
                    LET c == CHOOSE c \in Cols(left) : SuffixCol(c, ov, "_x") = nm
                    IN  IF hasL THEN l[c]
                        ELSE IF c \in Range(on) THEN r[c] ELSE Null]
        rpart == [nm \in {SuffixCol(c, ov, "_y") : c \in Cols(right) \ Range(on)} |->
                    LET c == CHOOSE c \in Cols(right) \ Range(on) :
                                 SuffixCol(c, ov, "_y") = nm
                    IN  IF hasR THEN r[c] ELSE Null]
    IN  lpart @@ rpart

\* the right rows whose key equals that of l (pandas matches a null key with a null key)
MatchesOf(l, rows, on) == SelectSeq(rows, LAMBDA r : KeyOf(r, on) = KeyOf(l, on))

\* the rows driven by the left frame: each left row with its matches, in order
MergeLeftRows(left, right, on, keepUnmatched) ==
    Flatten([i \in 1..Len(left.rows) |->
        LET l == left.rows[i]
            m == MatchesOf(l, right.rows, on)
        IN  IF m = <<>>
            THEN IF keepUnmatched
                 THEN <<MergeRow(left, right, on, l, l, TRUE, FALSE)>>
                 ELSE <<>>
            ELSE [j \in 1..Len(m) |-> MergeRow(left, right, on, l, m[j], TRUE, TRUE)]])

\* the rows driven by the right frame
MergeRightRows(left, right, on) ==
    Flatten([i \in 1..Len(right.rows) |->
        LET r == right.rows[i]
            m == MatchesOf(r, left.rows, on)
        IN  IF m = <<>>
            THEN <<MergeRow(left, right, on, r, r, FALSE, TRUE)>>
            ELSE [j \in 1..Len(m) |-> MergeRow(left, right, on, m[j], r, TRUE, TRUE)]])

\* the right rows no left row matches, padded with nulls
MergeRightOnly(left, right, on) ==
    Flatten([i \in 1..Len(right.rows) |->
        LET r == right.rows[i]
        IN  IF MatchesOf(r, left.rows, on) = <<>>
            THEN <<MergeRow(left, right, on, r, r, FALSE, TRUE)>>
            ELSE <<>>])

\* the merged frame; defined when MergeRaises is false
Merge(left, right, on, how) ==
    [cols |-> MergeCols(left, right, on),
     rows |-> CASE how = "inner" -> MergeLeftRows(left, right, on, FALSE)
                [] how = "left"  -> MergeLeftRows(left, right, on, TRUE)
                [] how = "right" -> MergeRightRows(left, right, on)
                [] OTHER -> SortByKey(MergeLeftRows(left, right, on, TRUE)
                                      \o MergeRightOnly(left, right, on), on)]

(***************************************************************************)
(* join_tables_generic, QA_report.py lines 92-136.  The state of the loop  *)
(* is a record js: joined (joined_dfs), log (the merges done), diag (the   *)
(* prints) and raised (a KeyError left the function).                      *)
(***************************************************************************)
JoinStart == [joined |-> <<>>, log |-> <<>>, diag |-> <<>>, raised |-> FALSE]

\* line 100: the JoinSpec names a table the workbook does not hold
JoinMissing(tables, spec) ==
    spec.left \notin DOMAIN tables \/ spec.right \notin DOMAIN tables

\* lines 106-112: the joined version of the left table when there is one
LeftOperand(tables, joined, spec) ==
    IF spec.left \in DOMAIN joined THEN joined[spec.left] ELSE tables[spec.left]

\* the same with the lookup of line 114 dropped
RightOperandOriginal(tables, joined, spec) == tables[spec.right]

\* the right table merged ahead of its own JoinSpec when that comes later
RightOperandFixedPoint(tables, joined, spec) ==
    IF spec.right \in DOMAIN joined THEN joined[spec.right]
    ELSE IF \E q \in Range(joins_required) :
               /\ q.left = spec.right
               /\ ~JoinMissing(tables, q)
               /\ ~MergeRaises(tables[q.left], tables[q.right], q.on)
         THEN LET q == CHOOSE q \in Range(joins_required) :
                          q.left = spec.right /\ ~JoinMissing(tables, q)
              IN  Merge(tables[q.left], tables[q.right], q.on, q.how)
         ELSE tables[spec.right]

\* lines 114-120: the joined version of the right table when there is one
RightOperand(tables, joined, spec) ==
    IF spec.right \in DOMAIN joined THEN joined[spec.right] ELSE tables[spec.right]

\* the mapping m with key name set to value v
Put(m, name, v) ==
    [x \in DOMAIN m \cup {name} |-> IF x = name THEN v ELSE m[x]]

\* lines 106-126: the merge of the two operands, stored under the left name
JoinMerged(tables, js, spec) ==
    LET l == LeftOperand(tables, js.joined, spec)
        r == RightOperand(tables, js.joined, spec)
    IN  IF MergeRaises(l, r, spec.on)
        THEN [js EXCEPT !.raised = TRUE]
        ELSE LET m == Merge(l, r, spec.on, spec.how)
             IN  [js EXCEPT
                    !.joined = Put(@, spec.left, m),
                    !.log = Append(@, [left |-> spec.left, right |-> spec.right,
                                       leftOperand |-> l, rightOperand |-> r,
                                       result |-> m]),
                    !.diag = Append(@, [msg |-> "using joined version",
                                        left |-> spec.left, right |-> spec.right])]

\* one iteration of the loop of line 95 that raises where the code continues
JoinIterRaiseOnMissing(tables, js, spec) ==
    IF JoinMissing(tables, spec)
    THEN [js EXCEPT !.raised = TRUE]
    ELSE JoinMerged(tables, js, spec)

\* one iteration of the loop of line 95
JoinIter(tables, js, spec) ==
    IF JoinMissing(tables, spec)
    THEN [js EXCEPT !.diag = Append(@, [msg |-> "join table not found",
                                       left |-> spec.left, right |-> spec.right])]
    ELSE JoinMerged(tables, js, spec)

\* the closing loop with the workbook tables left out
JoinFillNothing(tables, js) == js

\* lines 129-134: every table that was not joined enters under its own name
JoinFill(tables, js) ==
    LET rest == DOMAIN tables \ DOMAIN js.joined
    IN  [js EXCEPT
           !.joined = [x \in DOMAIN tables \cup DOMAIN js.joined |->
                          IF x \in DOMAIN js.joined THEN js.joined[x] ELSE tables[x]],
           !.diag = @ \o [i \in 1..Cardinality(rest) |->
                            [msg |-> "using workbook version", left |-> "", right |-> ""]]]

RECURSIVE JoinLoop(_, _, _)
\* the loop of line 95 over the JoinSpecs that remain; a raise ends it
JoinLoop(tables, js, specs) ==
    IF specs = <<>> \/ js.raised THEN js
    ELSE JoinLoop(tables, JoinIter(tables, js, Head(specs)), Tail(specs))

\* the whole function: the mapping it returns, or raised
join_tables_generic(tables, specs) ==
    LET js == JoinLoop(tables, JoinStart, specs)
    IN  IF js.raised THEN js ELSE JoinFill(tables, js)

(***************************************************************************)
(* The inputs of the join runs                                             *)
(***************************************************************************)
MaxJoins == 2

JoinNames == {"A", "B", "C"}

\* three related tables: all hold the key k, A and C both hold a, C lacks d
JoinTables ==
    [A |-> [cols |-> <<"k", "d", "a">>,
            rows |-> <<[k |-> Num(1), d |-> Num(1), a |-> Num(10)],
                       [k |-> Num(2), d |-> Num(1), a |-> Num(20)]>>],
     B |-> [cols |-> <<"k", "d", "b">>,
            rows |-> <<[k |-> Num(1), d |-> Num(1), b |-> Num(7)],
                       [k |-> Num(3), d |-> Num(2), b |-> Num(8)]>>],
     C |-> [cols |-> <<"k", "c", "a">>,
            rows |-> <<[k |-> Num(1), c |-> Num(5), a |-> Num(30)],
                       [k |-> Null, c |-> Num(6), a |-> Null]>>]]

JoinInfos ==
    [left : JoinNames, right : JoinNames,
     on : {<<"k">>, <<"k", "d">>},
     how : {"inner", "left", "right", "outer"}]

\* an ordered mapping keyed by the left table: no left name occurs twice
JoinSpecSeqs ==
    UNION {{q \in [1..m -> JoinInfos] :
               /\ \A i, j \in 1..m : i # j => q[i].left # q[j].left
               /\ \A i \in 1..m : q[i].left # q[i].right} : m \in 0..MaxJoins}

\* the workbooks: at most one of the three sheets is missing
JoinWorkbooks == {S \in SUBSET JoinNames : Cardinality(S) >= 2}

(***************************************************************************)
(* The run of join_tables_generic, one loop iteration per step             *)
(***************************************************************************)
JoinState == [joined |-> joined_dfs, log |-> joinlog, diag |-> diag, raised |-> FALSE]

InitJoin ==
    /\ pc = "join"
    /\ \E S \in JoinWorkbooks : dfs = [x \in S |-> JoinTables[x]]
    /\ joins_required \in JoinSpecSeqs
    /\ joined_dfs = <<>>
    /\ ji = 0
    /\ joinlog = <<>>
    /\ diag = <<>>
    /\ groups = <<>>
    /\ gi = 0
    /\ summaries_config = <<>>
    /\ config0 = <<>>
    /\ joined0 = <<>>
    /\ si = 0
    /\ summary_tables = <<>>
    /\ cur = <<>>
    /\ delivered = <<>>

\* lines 95-126: the next JoinSpec
JoinStep ==
    /\ pc = "join"
    /\ ji < Len(joins_required)
    /\ LET js == JoinIter(dfs, JoinState, joins_required[ji + 1])
       IN  /\ joined_dfs' = js.joined
           /\ joinlog' = js.log
           /\ diag' = js.diag
           /\ pc' = IF js.raised THEN "raised" ELSE "join"
    /\ ji' = ji + 1
    /\ UNCHANGED <<dfs, joins_required, sumVars>>

\* lines 128-136: the un-joined tables are added and the mapping is returned
JoinReturn ==
    /\ pc = "join"
    /\ ji = Len(joins_required)
    /\ LET js == JoinFill(dfs, JoinState)
       IN  /\ joined_dfs' = js.joined
           /\ diag' = js.diag
    /\ pc' = "done"
    /\ UNCHANGED <<dfs, joins_required, ji, joinlog, sumVars>>

NextJoin == JoinStep \/ JoinReturn

SpecJoin == InitJoin /\ [][NextJoin]_vars

(***************************************************************************)
(* Properties of join_tables_generic (checked under SpecJoin)              *)
(***************************************************************************)
\* the columns the right operand added to the result of a logged merge
ContributedCols(e) ==
    {e.result.cols[x] : x \in (Len(e.leftOperand.cols) + 1)..Len(e.result.cols)}

\* the JoinSpec keyed by the left table name x
SpecOf(x) == CHOOSE q \in Range(joins_required) : q.left = x

\* C1: join chaining.  When a JoinSpec {B: join A} is followed by {C: join B},
\* the merge for C takes as its right operand the result of B's merge (not the
\* workbook's B), and every column A contributed to B is a column of C's
\* joined table, under its own name or with the suffix pandas gives to the
\* right side of a name clash.
C1_JoinChaining ==
    \A i, j \in 1..Len(joinlog) :
        (i < j /\ joinlog[j].right = joinlog[i].left) =>
            /\ joinlog[j].rightOperand = joinlog[i].result
            /\ joined_dfs[joinlog[j].left] = joinlog[j].result
            /\ \A c \in ContributedCols(joinlog[i]) :
                   \/ c \in Cols(joined_dfs[joinlog[j].left])
                   \/ (c \o "_y") \in Cols(joined_dfs[joinlog[j].left])

\* the run {B: join A}, {C: join B} has returned and C holds A's column a
C1_Witness ==
    /\ pc = "done"
    /\ Len(joinlog) = 2
    /\ joinlog[1].left = "B" /\ joinlog[1].right = "A"
    /\ joinlog[2].left = "C" /\ joinlog[2].right = "B"
    /\ "a" \in ContributedCols(joinlog[1])
    /\ "a_y" \in Cols(joined_dfs["C"])
    /\ "a" \notin Cols(dfs["B"])

\* C2: the mapping join_tables_generic returns has exactly the input's table
\* names as keys; the left side of an executed merge maps to the merged table,
\* every other name to the unmodified input table.
C2_JoinOutputKeys ==
    pc = "done" =>
        /\ DOMAIN joined_dfs = DOMAIN dfs
        /\ \A x \in DOMAIN dfs :
              IF \E e \in Range(joinlog) : e.left = x
              THEN LET e == CHOOSE e \in Range(joinlog) : e.left = x
                   IN  joined_dfs[x] = Merge(e.leftOperand, e.rightOperand,
                                             SpecOf(x).on, SpecOf(x).how)
              ELSE joined_dfs[x] = dfs[x]

\* a returned mapping with a joined table and an untouched one
C2_Witness ==
    /\ pc = "done"
    /\ \E x, y \in DOMAIN joined_dfs :
          /\ \E e \in Range(joinlog) : e.left = x
          /\ joined_dfs[x] # dfs[x]
          /\ \A e \in Range(joinlog) : e.left # y
          /\ joined_dfs[y] = dfs[y]

\* C3: a JoinSpec whose left or right table is absent from the input is skipped
\* with a diagnostic and without raising; the later JoinSpecs are still
\* processed, and a later merge whose right side is the skipped left table
\* takes the workbook's version of that table.
C3_MissingTableSkipped ==
    \A i \in 1..ji :
        LET sp == joins_required[i]
        IN  JoinMissing(dfs, sp) =>
              /\ pc = "raised" => i < ji
              /\ \E m \in 1..Len(diag) :
                    diag[m] = [msg |-> "join table not found",
                               left |-> sp.left, right |-> sp.right]
              /\ \A e \in Range(joinlog) : e.left # sp.left
              /\ pc = "done" =>
                    \A j \in 1..Len(joins_required) :
                        ~JoinMissing(dfs, joins_required[j]) =>
                            \E e \in Range(joinlog) : e.left = joins_required[j].left
              /\ \A e \in Range(joinlog) :
                    e.right = sp.left => e.rightOperand = dfs[sp.left]

\* a skipped JoinSpec followed by a merge against the skipped left table
C3_Witness ==
    /\ pc = "done"
    /\ Len(joins_required) = 2
    /\ JoinMissing(dfs, joins_required[1])
    /\ joins_required[2].right = joins_required[1].left
    /\ Len(joinlog) = 1
    /\ joinlog[1].left = joins_required[2].left

(***************************************************************************)
(* Python string tests used on column names and filter sentinels           *)
(***************************************************************************)
UpperChars == "ABCDEFGHIJKLMNOPQRSTUVWXYZ"

LowerChars == "abcdefghijklmnopqrstuvwxyz"

LowerChar(c) ==
    IF \E i \in 1..Len(UpperChars) : SubSeq(UpperChars, i, i) = c
    THEN LET i == CHOOSE i \in 1..Len(UpperChars) : SubSeq(UpperChars, i, i) = c
         IN  SubSeq(LowerChars, i, i)
    ELSE c

RECURSIVE Lower(_)
\* str.lower()
Lower(s) ==
    IF s = "" THEN ""
    ELSE LowerChar(SubSeq(s, 1, 1)) \o Lower(SubSeq(s, 2, Len(s)))

\* sub in s, for two strings
Contains(s, sub) ==
    \E i \in 1..(Len(s) - Len(sub) + 1) : SubSeq(s, i, i + Len(sub) - 1) = sub

\* s.endswith(suffix)
EndsWith(s, suffix) ==
    /\ Len(s) >= Len(suffix)
    /\ SubSeq(s, Len(s) - Len(suffix) + 1, Len(s)) = suffix

(***************************************************************************)
(* filter_df, QA_report.py lines 139-183.  A FilterSpec is a sequence of   *)
(* terms [col, cond]; cond is [kind, text, ops]: a string (kind "str"), a  *)
(* dict of operator -> value (kind "dict", ops a sequence of               *)
(* [op, val, isList]) or a value of another type.  The state of the loop   *)
(* is fs: the frame, whether a df = df[...] made a new frame, the prints,  *)
(* and whether an exception left the function.                             *)
(***************************************************************************)
\* df[mask]: a new frame with the rows whose positions are in keep
FilterRows(df, keep) ==
    [df EXCEPT !.rows = [i \in 1..Cardinality(keep) |-> df.rows[SeqOfSet(keep)[i]]]]

SupportedOps == {"<", ">", "==", "!="}

ListOps == {"in", "not in"}

\* lines 155-166: the operator has a branch that indexes df[filter_col]
OpIndexesColumn(o) ==
    \/ o.op \in SupportedOps
    \/ o.op \in ListOps /\ o.isList

RECURSIVE FilterOps(_, _, _)
\* lines 154-174, reached only for a filter_col that is not in df.columns:
\* a supported operator indexes the missing column (KeyError), another one
\* is reported; the for-else of line 171 reports once more
FilterOps(fs, col, ops) ==
    IF ops = <<>>
    THEN [fs EXCEPT !.diag = Append(@, [msg |-> "unsupported filter condition type",
                                        left |-> col, right |-> ""])]
    ELSE IF OpIndexesColumn(Head(ops))
         THEN [fs EXCEPT !.raised = TRUE]
         ELSE FilterOps([fs EXCEPT !.diag = Append(@, [msg |-> "unsupported operator",
                                                       left |-> col, right |-> ""])],
                        col, Tail(ops))

\* one term of the FilterSpec with the sentinels compared as written
FilterTermCaseSensitive(fs, term) ==
    IF term.col \in Cols(fs.df)
    THEN IF term.cond.kind = "str" /\ term.cond.text = "is not null"
         THEN [fs EXCEPT !.df = FilterRows(@, {i \in 1..Len(fs.df.rows) :
                                                   ~IsNull(fs.df.rows[i][term.col])}),
                         !.copied = TRUE]
         ELSE IF term.cond.kind = "str" /\ term.cond.text = "is null"
              THEN [fs EXCEPT !.df = FilterRows(@, {i \in 1..Len(fs.df.rows) :
                                                        IsNull(fs.df.rows[i][term.col])}),
                              !.copied = TRUE]
              ELSE fs
    ELSE IF term.cond.kind = "dict"
         THEN FilterOps(fs, term.col, term.cond.ops)
         ELSE [fs EXCEPT !.diag = Append(@, [msg |-> "unsupported filter condition",
                                             left |-> term.col, right |-> ""])]

\* lines 141-178: one term of the FilterSpec
FilterTerm(fs, term) ==
    IF term.col \in Cols(fs.df)
    THEN IF term.cond.kind = "str" /\ Lower(term.cond.text) = "is not null"
         THEN [fs EXCEPT !.df = FilterRows(@, {i \in 1..Len(fs.df.rows) :
                                                   ~IsNull(fs.df.rows[i][term.col])}),
                         !.copied = TRUE]
         ELSE IF term.cond.kind = "str" /\ Lower(term.cond.text) = "is null"
              THEN [fs EXCEPT !.df = FilterRows(@, {i \in 1..Len(fs.df.rows) :
                                                        IsNull(fs.df.rows[i][term.col])}),
                              !.copied = TRUE]
              ELSE fs
    ELSE IF term.cond.kind = "dict"
         THEN FilterOps(fs, term.col, term.cond.ops)
         ELSE [fs EXCEPT !.diag = Append(@, [msg |-> "unsupported filter condition",
                                             left |-> term.col, right |-> ""])]

RECURSIVE FilterLoop(_, _)
\* the loop of line 140; an exception ends it
FilterLoop(fs, terms) ==
    IF terms = <<>> \/ fs.raised THEN fs
    ELSE FilterLoop(FilterTerm(fs, Head(terms)), Tail(terms))

\* the whole function.  The for-else of lines 179-182 prints after every
\* completed loop and names filter_col, which is unbound for an empty filter
filter_df(filter, df) ==
    LET fs == FilterLoop([df |-> df, copied |-> FALSE, diag |-> <<>>, raised |-> FALSE],
                         filter)
    IN  IF fs.raised THEN fs
        ELSE IF filter = <<>> THEN [fs EXCEPT !.raised = TRUE]
        ELSE [fs EXCEPT !.diag = Append(@, [msg |-> "filter column not found",
                                            left |-> filter[Len(filter)].col, right |-> ""])]

(***************************************************************************)
(* Aggregation functions of DataFrameGroupBy.agg, over the cells of one    *)
(* column within one group, in row order                                   *)
(***************************************************************************)
Functions == {"count", "nunique", "sum", "min", "max", "mean", "unique", "first"}

NonNull(cells) == SelectSeq(cells, LAMBDA v : ~IsNull(v))

AddCells(a, b) == Frac(a.n * b.d + b.n * a.d, a.d * b.d)

RECURSIVE SumCells(_)
\* the sum of numeric cells; 0 for none
SumCells(cells) ==
    IF cells = <<>> THEN Num(0)
    ELSE IF Len(cells) = 1 THEN cells[1]
    ELSE LET h == Len(cells) \div 2
         IN  AddCells(SumCells(SubSeq(cells, 1, h)),
                      SumCells(SubSeq(cells, h + 1, Len(cells))))

\* the least cell of a non-empty set under CellLess
LeastCell(S) == CHOOSE m \in S : \A o \in S \ {m} : CellLess(m, o)

\* the greatest cell of a non-empty set under CellLess
GreatestCell(S) == CHOOSE m \in S : \A o \in S \ {m} : CellLess(o, m)

\* the digits of the fraction r/d (0 <= r < d) of a finite decimal
RECURSIVE FractionDigits(_, _)
FractionDigits(r, d) ==
    IF r = 0 THEN ""
    ELSE ToString((r * 10) \div d) \o FractionDigits((r * 10) % d, d)

\* str(v) of a cell of a column; numbers of a float column print with a point
CellStr(v, isFloat) ==
    IF v.k = "str" THEN v.s
    ELSE IF v.d = 1
         THEN ToString(v.n) \o (IF isFloat THEN ".0" ELSE "")
         ELSE (IF v.n < 0 THEN "-" ELSE "") \o ToString(Abs(v.n) \div v.d)
              \o "." \o FractionDigits(Abs(v.n) % v.d, v.d)

RECURSIVE SortStrings(_)
\* sorted(...) of a set of distinct strings
SortStrings(S) ==
    IF S = {} THEN <<>>
    ELSE LET m == CHOOSE m \in S : \A o \in S \ {m} : StrLess(m, o)
         IN  <<m>> \o SortStrings(S \ {m})

RECURSIVE JoinStrings(_, _)
\* sep.join(parts)
JoinStrings(parts, sep) ==
    IF parts = <<>> THEN ""
    ELSE IF Len(parts) = 1 THEN parts[1]
    ELSE parts[1] \o sep \o JoinStrings(Tail(parts), sep)

\* the dtype of a column as read from the sheet: a numeric column with a
\* null or a fraction is a float column
IsFloatCol(df, c) ==
    \E i \in 1..Len(df.rows) :
        IsNull(df.rows[i][c]) \/ (IsNum(df.rows[i][c]) /\ df.rows[i][c].d # 1)

\* line 480 'unique' and lines 509-513: the distinct non-null values of the
\* group as text, sorted and joined with "; "
UniqueText(cells, isFloat) ==
    Str(JoinStrings(SortStrings({CellStr(v, isFloat) : v \in Range(NonNull(cells))}
                                \ {""}), "; "))

\* the aggregation raises TypeError: arithmetic on text, or an order of mixed types
AggRaises(f, cells) ==
    LET nn == Range(NonNull(cells))
    IN  \/ f \in {"sum", "mean"} /\ \E v \in nn : v.k = "str"
        \/ f \in {"min", "max"} /\ (\E v \in nn : v.k = "str") /\ (\E v \in nn : IsNum(v))

\* the value of function f over the cells of a group
Agg(f, cells, isFloat) ==
    LET nn == NonNull(cells)
    IN  CASE f = "count" -> Num(Len(nn))
          [] f = "nunique" -> Num(Cardinality(Range(nn)))
          [] f = "sum" -> SumCells(nn)
          [] f = "min" -> IF nn = <<>> THEN Null ELSE LeastCell(Range(nn))
          [] f = "max" -> IF nn = <<>> THEN Null ELSE GreatestCell(Range(nn))
          [] f = "mean" -> IF nn = <<>> THEN Null
                           ELSE LET t == SumCells(nn) IN Frac(t.n, t.d * Len(nn))
          [] f = "first" -> IF nn = <<>> THEN Null ELSE nn[1]
          [] OTHER -> UniqueText(cells, isFloat)

(***************************************************************************)
(* generate_effort_summaries, QA_report.py lines 417-513: one SummaryDef   *)
(* up to the flattened table.  A SummaryDef is [name, table, group_by,     *)
(* summary, hasFilter, filter, hasSum, sum_columns, new_column_name];      *)
(* summary is the ordered mapping column -> function(s), a sequence of     *)
(* [col, single, fs]: single tells a str from a list.  The work record w   *)
(* holds df, whether df is still the object joined_dfs[table] (alias),     *)
(* that table as it now is (tbl), group_by_cols, summary_funcs, the prints *)
(* and whether an exception left the function.                             *)
(***************************************************************************)
GroupThreshold == 50

Placeholder == "Missing"

WorkStart(tbl, def) ==
    [df |-> tbl, alias |-> TRUE, tbl |-> tbl, group_by |-> def.group_by,
     funcs |-> def.summary, diag |-> <<>>, raised |-> FALSE,
     remediated |-> FALSE, num_groups |-> 0, filtered |-> tbl,
     summary_df |-> [cols |-> <<>>, rows |-> <<>>], prov |-> <<>>,
     floats |-> {c \in Cols(tbl) : IsFloatCol(tbl, c)}, qfloats |-> {},
     filterRaised |-> FALSE]

\* an assignment to df reaches joined_dfs[table] while df is that object
Assign(w, newdf) == [w EXCEPT !.df = newdf, !.tbl = IF w.alias THEN newdf ELSE @]

\* lines 434-437: the filter, when the SummaryDef has one
StageFilter(w, def) ==
    IF ~def.hasFilter THEN w
    ELSE LET fs == filter_df(def.filter, w.df)
         IN  [w EXCEPT !.df = fs.df, !.alias = ~fs.copied, !.filtered = fs.df,
                       !.diag = @ \o fs.diag, !.raised = fs.raised,
                       !.filterRaised = fs.raised]

\* fillna: the nulls of the columns by become the placeholder
FillMissing(df, by) ==
    [df EXCEPT !.rows =
        [i \in 1..Len(df.rows) |->
            [c \in DOMAIN df.rows[i] |->
                IF c \in Range(by) /\ IsNull(df.rows[i][c])
                THEN Str(Placeholder) ELSE df.rows[i][c]]]]

\* line 440: df[group_by_cols] raises KeyError for a column df lacks;
\* otherwise the group-by columns of df are filled in place
StageFill(w) ==
    IF w.raised THEN w
    ELSE IF \E c \in Range(w.group_by) : c \notin Cols(w.df)
         THEN [w EXCEPT !.raised = TRUE]
         ELSE Assign(w, FillMissing(w.df, w.group_by))

\* df[sum_columns].sum(axis=1): the row-wise sum, nulls skipped
RowSum(row, sumcols) ==
    SumCells(NonNull([i \in 1..Len(sumcols) |-> row[sumcols[i]]]))

\* an assignment that adds a column even when the name is taken
SetColumnAppend(df, new, values) ==
    [cols |-> Append(df.cols, new),
     rows |-> [i \in 1..Len(df.rows) |->
                  [c \in Cols(df) \cup {new} |->
                      IF c = new THEN values[i] ELSE df.rows[i][c]]]]

\* df[new] = ...: a new last column, or an existing one overwritten
SetColumn(df, new, values) ==
    [cols |-> IF new \in Cols(df) THEN df.cols ELSE Append(df.cols, new),
     rows |-> [i \in 1..Len(df.rows) |->
                  [c \in Cols(df) \cup {new} |->
                      IF c = new THEN values[i] ELSE df.rows[i][c]]]]

\* lines 443-444: the derived column, added to df in place
StageSum(w, def) ==
    IF w.raised \/ ~def.hasSum THEN w
    ELSE IF \E c \in Range(def.sum_columns) : c \notin Cols(w.df)
         THEN [w EXCEPT !.raised = TRUE]
         ELSE IF \E i \in 1..Len(w.df.rows) : \E c \in Range(def.sum_columns) :
                    w.df.rows[i][c].k = "str"
              THEN [w EXCEPT !.raised = TRUE]
              ELSE [Assign(w, SetColumn(w.df, def.new_column_name,
                                        [i \in 1..Len(w.df.rows) |->
                                            RowSum(w.df.rows[i], def.sum_columns)]))
                       EXCEPT !.floats =
                          IF Range(def.sum_columns) \cap w.floats # {}
                          THEN @ \cup {def.new_column_name}
                          ELSE @ \ {def.new_column_name}]

\* lines 447-451: the explicit check of the group-by columns
StageCheck(w) ==
    IF w.raised THEN w
    ELSE IF \E c \in Range(w.group_by) : c \notin Cols(w.df)
         THEN [w EXCEPT !.raised = TRUE,
                        !.diag = Append(@, [msg |-> "group-by columns not found", left |-> "", right |-> ""])]
         ELSE w

\* the keys of df.groupby(by): rows with a null key cell form no group
GroupKeySet(df, by) ==
    {KeyOf(df.rows[i], by) :
        i \in {i \in 1..Len(df.rows) : \A c \in Range(by) : ~IsNull(df.rows[i][c])}}

\* the keys in groupby's sorted order: each key at the rank of its predecessors
SortKeys(S) ==
    LET AtRank(rank) == [i \in 1..Cardinality(S) |-> CHOOSE m \in S : rank[m] = i - 1]
    IN  AtRank([m \in S |-> Cardinality({o \in S : TupleLess(o, m)})])

\* lines 461-465: the condition of the substitution
CanSubstitute(w) ==
    /\ "SamplingUnitID" \in Range(w.group_by)
    /\ "SamplePointName" \in Cols(w.df)
    /\ "TransectID" \in Cols(w.df)

\* lines 474-476: a column whose function is the string "sum" gets ["min", "max"]
WidenSums(funcs) ==
    [i \in 1..Len(funcs) |->
        IF funcs[i].single /\ funcs[i].fs = <<"sum">>
        THEN [funcs[i] EXCEPT !.single = FALSE, !.fs = <<"min", "max">>]
        ELSE funcs[i]]

\* lines 454-476: the group count and the high-cardinality substitution
StageGroups(w) ==
    IF w.raised THEN w
    ELSE LET n == Cardinality(GroupKeySet(w.df, w.group_by))
             d0 == Append(w.diag, [msg |-> "number of groups", left |-> "", right |-> ""])
             d1 == Append(d0, [msg |-> "large number of groups", left |-> "", right |-> ""])
         IN  IF n > GroupThreshold
             THEN IF CanSubstitute(w)
                  THEN [w EXCEPT
                          !.num_groups = n, !.remediated = TRUE,
                          !.diag = Append(d1, [msg |-> "replacing SamplingUnitID",
                                               left |-> "", right |-> ""]),
                          !.group_by = SeqFilter(@, Range(@) \ {"SamplingUnitID"})
                                       \o <<"SamplePointName", "TransectID">>,
                          !.funcs = WidenSums(@)]
                  ELSE [w EXCEPT !.num_groups = n, !.diag = d1]
             ELSE [w EXCEPT !.num_groups = n, !.diag = d0]

\* the name a function shows under: count reads records (lines 487, 496, 525)
DisplayFunc(f) == IF f = "count" THEN "records" ELSE f

\* agg returns two-level columns as soon as one column declares a list
MultiLevel(funcs) == \E i \in 1..Len(funcs) : ~funcs[i].single

\* the (column, function) pairs of the mapping, in its order
AggPairs(funcs) ==
    Flatten([i \in 1..Len(funcs) |->
        [j \in 1..Len(funcs[i].fs) |-> [col |-> funcs[i].col, f |-> funcs[i].fs[j]]]])

\* lines 485-506 naming every aggregate "{col}\n{function}"
FlatNameUniform(pair, multi) == pair.col \o "\n" \o DisplayFunc(pair.f)

\* lines 485-506: the flattened name of an aggregate column
FlatName(pair, multi) ==
    IF multi
    THEN pair.col \o "\n" \o DisplayFunc(pair.f)
    ELSE IF pair.f # "first"
         THEN pair.col \o "\n" \o DisplayFunc(pair.f)
         ELSE pair.col

\* the position of x in the sequence q
IndexOf(q, x) == CHOOSE i \in 1..Len(q) : q[i] = x

\* the cells of column c over the rows of the group with the given key
GroupCells(df, by, key, c) ==
    LET g == SelectSeq(df.rows, LAMBDA r : KeyOf(r, by) = key)
    IN  [i \in 1..Len(g) |-> g[i][c]]

\* the aggregate table of df for the given pairs, their names and the keys
Aggregated(df, by, pairs, names, keys, floats) ==
    [cols |-> by \o names,
     rows |-> [k \in 1..Len(keys) |->
        [nm \in Range(by) \cup Range(names) |->
            IF nm \in Range(by)
            THEN keys[k][IndexOf(by, nm)]
            ELSE LET p == pairs[IndexOf(names, nm)]
                 IN  Agg(p.f, GroupCells(df, by, keys[k], p.col),
                         p.col \in floats)]]]

\* lines 480-513 once the pairs, their flattened names and the keys are known
AggregateWith(w, pairs, names, keys) ==
    IF \E j \in 1..Len(pairs) : pairs[j].col \notin Cols(w.df)
    THEN [w EXCEPT !.raised = TRUE]
    ELSE IF \E j \in 1..Len(pairs) : \E k \in 1..Len(keys) :
               AggRaises(pairs[j].f,
                         GroupCells(w.df, w.group_by, keys[k], pairs[j].col))
         THEN [w EXCEPT !.raised = TRUE]
         ELSE [w EXCEPT
                 !.summary_df = Aggregated(w.df, w.group_by, pairs, names, keys,
                                           w.floats),
                 !.qfloats = {names[j] : j \in {j \in 1..Len(pairs) :
                                 \/ pairs[j].f = "mean"
                                 \/ /\ pairs[j].f \in {"sum", "min", "max", "first"}
                                    /\ pairs[j].col \in w.floats}},
                 !.prov = [j \in 1..Len(pairs) |->
                             [name |-> names[j], col |-> pairs[j].col,
                              f |-> pairs[j].f]]]

\* the flattened names of the pairs
FlatNames(pairs, multi) == [j \in 1..Len(pairs) |-> FlatName(pairs[j], multi)]

\* lines 480-513: group, aggregate, reset the index, flatten the names and
\* format the unique lists; KeyError for a summary column df lacks
StageAgg(w) ==
    IF w.raised THEN w
    ELSE AggregateWith(w, AggPairs(w.funcs),
                       FlatNames(AggPairs(w.funcs), MultiLevel(w.funcs)),
                       SortKeys(GroupKeySet(w.df, w.group_by)))

\* lines 432-513 for one SummaryDef over joined_dfs[table]
Summarise(tbl, def) ==
    StageAgg(StageGroups(StageCheck(StageSum(StageFill(
        StageFilter(WorkStart(tbl, def), def)), def))))

(***************************************************************************)
(* The QA rules, QA_report.py lines 518-621: one iteration of the loop     *)
(* over summary_funcs.items().  The state q holds summary_df, the rules    *)
(* applied so far (applied: rule, original column, checked column, verdict *)
(* column, label) and whether an exception left the function.              *)
(***************************************************************************)
\* the pass verdict, the character U+2713 in the source
Checkmark == "[check]"

CoverLimit == 101

RangeCheckCol == "QA Check\nrange check\n0-100% +1"

EqualityCheckCol == "QA Check\nequality\nunique = count"

MaxCheckCol == "QA Check\nmax > 0"

\* isinstance(funcs, str) -> [funcs], line 519
FuncList(entry) == entry.fs

\* lines 523-530: function -> generated column, for the functions whose
\* column (or, failing that, the bare original column) is in summary_df
ColMap(df, entry) ==
    [f \in {f \in Range(FuncList(entry)) :
               \/ (entry.col \o "\n" \o DisplayFunc(f)) \in Cols(df)
               \/ entry.col \in Cols(df)} |->
        IF (entry.col \o "\n" \o DisplayFunc(f)) \in Cols(df)
        THEN entry.col \o "\n" \o DisplayFunc(f)
        ELSE entry.col]

\* pd.api.types.is_numeric_dtype of a summary column
IsNumericCol(df, c) == \A i \in 1..Len(df.rows) : df.rows[i][c].k # "str"

CellIsZero(v) == IsNum(v) /\ v.n = 0

CellPositive(v) == IsNum(v) /\ v.n > 0

CellNegative(v) == IsNum(v) /\ v.n < 0

\* v > limit, for an integer limit
CellAbove(v, limit) == IsNum(v) /\ v.n > limit * v.d

\* 0 <= v <= limit
CellWithin(v, limit) == IsNum(v) /\ v.n >= 0 /\ v.n <= limit * v.d

\* the column a rule writes: replaced when present, appended otherwise
SetVerdicts(df, qacol, verdicts) ==
    SetColumn(df, qacol, [k \in 1..Len(df.rows) |-> Str(verdicts[k])])

\* line 535: col_map.get("sum", col_map.get("max", col_map.get("min")))
RangeChecked(cm) ==
    IF "sum" \in DOMAIN cm THEN cm["sum"]
    ELSE IF "max" \in DOMAIN cm THEN cm["max"] ELSE cm["min"]

\* lines 538-541: the first of sum, max, min that occurs in the text of the
\* checked column's name; func keeps the last function of line 524 otherwise
RangeLabel(cm, entry) ==
    LET checked == RangeChecked(cm)
        order == <<"sum", "max", "min">>
        hits == {i \in 1..3 : Contains(checked, order[i])}
    IN  IF hits = {} THEN FuncList(entry)[Len(FuncList(entry))]
        ELSE order[CHOOSE i \in hits : \A j \in hits : i <= j]

\* the range verdict with 101 itself flagged
RangeVerdictStrict(v, col, func, negfunc) ==
    IF CellNegative(v) THEN col \o "_" \o negfunc \o " negative"
    ELSE IF IsNull(v) THEN col \o "_" \o func \o " missing"
    ELSE IF IsNum(v) /\ v.n >= CoverLimit * v.d THEN col \o "_" \o func \o " > 101%"
    ELSE IF CellWithin(v, CoverLimit) THEN Checkmark
    ELSE ""

\* lines 546-555: the verdict of one row; a later assignment overrides an earlier
RangeVerdict(v, col, func, negfunc) ==
    IF CellNegative(v) THEN col \o "_" \o negfunc \o " negative"
    ELSE IF IsNull(v) THEN col \o "_" \o func \o " missing"
    ELSE IF CellAbove(v, CoverLimit) THEN col \o "_" \o func \o " > 101%"
    ELSE IF CellWithin(v, CoverLimit) THEN Checkmark
    ELSE ""

\* lines 535-555: the percent-cover range check
RuleRange(q, entry) ==
    LET cm == ColMap(q.df, entry)
    IN  IF q.raised \/ ({"sum", "max", "min"} \cap DOMAIN cm) = {}
           \/ ~EndsWith(Lower(entry.col), "cover")
        THEN q
        ELSE LET checked == RangeChecked(cm)
                 func == RangeLabel(cm, entry)
                 negfunc == IF func = "max" /\ "min" \in DOMAIN cm THEN "min" ELSE func
             IN  IF ~IsNumericCol(q.df, checked)
                 THEN [q EXCEPT !.raised = TRUE]
                 ELSE [q EXCEPT
                         !.df = SetVerdicts(@, RangeCheckCol,
                                   [k \in 1..Len(q.df.rows) |->
                                       RangeVerdict(q.df.rows[k][checked], entry.col,
                                                    func, negfunc)]),
                         !.applied = Append(@, [rule |-> "range", col |-> entry.col,
                                                checked |-> checked,
                                                qa |-> RangeCheckCol,
                                                label |-> func])]

\* the equality verdict comparing with >= in place of ==
EqualityVerdictAtLeast(count, nunique) ==
    IF IsNum(count) /\ IsNum(nunique) /\ count.n * nunique.d >= nunique.n * count.d
    THEN Checkmark ELSE "mismatched"

\* lines 563-566: the verdict of one row; a null equals nothing
EqualityVerdict(count, nunique) ==
    IF ~IsNull(count) /\ ~IsNull(nunique) /\ count = nunique
    THEN Checkmark ELSE "mismatched"

\* lines 557-566: count against nunique of the same original column
RuleEquality(q, entry) ==
    LET cm == ColMap(q.df, entry)
    IN  IF q.raised \/ ~({"count", "nunique"} \subseteq DOMAIN cm) THEN q
        ELSE IF ~IsNumericCol(q.df, cm["count"]) THEN q
        ELSE [q EXCEPT
                !.df = SetVerdicts(@, EqualityCheckCol,
                          [k \in 1..Len(q.df.rows) |->
                              EqualityVerdict(q.df.rows[k][cm["count"]],
                                              q.df.rows[k][cm["nunique"]])]),
                !.applied = Append(@, [rule |-> "equality", col |-> entry.col,
                                       checked |-> cm["count"],
                                       qa |-> EqualityCheckCol,
                                       label |-> cm["nunique"]])]

\* lines 573-579: the verdict of one row
MaxVerdict(v, checked) ==
    IF IsNull(v) THEN "missing"
    ELSE IF CellPositive(v) THEN Checkmark
    ELSE IF CellIsZero(v) THEN checked \o " is 0"
    ELSE ""

\* lines 569-579: a maximum of 0 on a column that is no cover column
RuleMax(q, entry) ==
    LET cm == ColMap(q.df, entry)
    IN  IF q.raised \/ "max" \notin DOMAIN cm \/ EndsWith(Lower(entry.col), "cover")
        THEN q
        ELSE IF ~IsNumericCol(q.df, cm["max"]) THEN q
        ELSE [q EXCEPT
                !.df = SetVerdicts(@, MaxCheckCol,
                          [k \in 1..Len(q.df.rows) |->
                              MaxVerdict(q.df.rows[k][cm["max"]], cm["max"])]),
                !.applied = Append(@, [rule |-> "max", col |-> entry.col,
                                       checked |-> cm["max"], qa |-> MaxCheckCol,
                                       label |-> "max"])]

\* lines 584-591: the rule reads summary_df["QuadratPlotID\ncount"], a name
\* the flattening never produces (count shows as records), so it raises
\* KeyError whenever its condition holds
RuleSoilMoisture(q, entry, funcs) ==
    IF q.raised THEN q
    ELSE IF /\ Contains(entry.col, "SoilMoisture")
            /\ \E i \in 1..Len(funcs) : funcs[i].col = "QuadratPlotID"
         THEN [q EXCEPT !.raised = TRUE]
         ELSE q

\* a - b and a * b on numeric cells
SubCells(a, b) == Frac(a.n * b.d - b.n * a.d, a.d * b.d)

MulCells(a, b) == Frac(a.n * b.n, a.d * b.d)

\* the numeric cells in ascending order, equal values in their given order
SortCells(cells) ==
    LET n == Len(cells)
        AtRank(rank) == [r \in 1..n |-> cells[CHOOSE i \in 1..n : rank[i] = r - 1]]
    IN  AtRank([i \in 1..n |->
                  Cardinality({j \in 1..n : \/ CellLess(cells[j], cells[i])
                                            \/ cells[j] = cells[i] /\ j < i})])

\* quantile without interpolation: the value at the lower position
QuantileLower(sorted, a, b) == sorted[((Len(sorted) - 1) * a) \div b + 1]

\* Series.quantile(a/b) of sorted values, by linear interpolation
Quantile(sorted, a, b) ==
    LET h == (Len(sorted) - 1) * a
        lo == h \div b + 1
    IN  IF h % b = 0 THEN sorted[lo]
        ELSE AddCells(sorted[lo],
                      MulCells(Frac(h % b, b), SubCells(sorted[lo + 1], sorted[lo])))

\* 10 to the power digits, for one or two digits
Pow10(digits) == IF digits = 1 THEN 10 ELSE 100

\* f"{v:.1f}" and f"{v:.2f}": the nearest decimal, a tie to the even digit
\* (the values are binary fractions, whose floats are exact)
FormatFixed(v, digits) ==
    LET scaled == Abs(v.n) * Pow10(digits)
        down == scaled \div v.d
        twice == 2 * (scaled % v.d)
        m == IF twice > v.d \/ (twice = v.d /\ down % 2 = 1) THEN down + 1 ELSE down
        frac == m % Pow10(digits)
    IN  (IF v.n < 0 THEN "-" ELSE "") \o ToString(m \div Pow10(digits)) \o "."
        \o (IF digits = 2 /\ frac < 10 THEN "0" ELSE "") \o ToString(frac)

\* lines 645-651: the verdict of one row against the bounds
OutlierVerdict(v, lower, upper, label) ==
    IF ~IsNum(v) THEN ""
    ELSE IF CellLess(upper, v) THEN "high " \o label
    ELSE IF CellLess(v, lower) THEN "low " \o label
    ELSE Checkmark

\* lines 631-651 once the checked column and its sorted values are known
OutliersWith(q, col, func, checked, sorted) ==
    IF sorted = <<>> THEN q
    ELSE LET Bounds(q1, q3) ==
                 <<SubCells(q1, MulCells(Frac(3, 2), SubCells(q3, q1))),
                   AddCells(q3, MulCells(Frac(3, 2), SubCells(q3, q1)))>>
             Write(b, label, digits) ==
                 LET qa == "QA Check\n" \o label \o "\noutliers IQR\n["
                           \o FormatFixed(b[1], digits) \o ", "
                           \o FormatFixed(b[2], digits) \o "]"
                 IN  [q EXCEPT
                        !.df = SetVerdicts(@, qa,
                                  [k \in 1..Len(q.df.rows) |->
                                      OutlierVerdict(q.df.rows[k][checked],
                                                     b[1], b[2], label)]),
                        !.applied = Append(@, [rule |-> "outliers", col |-> col,
                                               checked |-> checked, qa |-> qa,
                                               label |-> label])]
         IN  Write(Bounds(Quantile(sorted, 1, 4), Quantile(sorted, 3, 4)),
                   col \o "_" \o DisplayFunc(func),
                   IF checked \in q.floats THEN 2 ELSE 1)

\* lines 627-651: qa_outliers; col_map[func] raises KeyError without the
\* function, quantile raises TypeError on text
qa_outliers(q, func, entry) ==
    IF q.raised THEN q
    ELSE IF func \notin DOMAIN ColMap(q.df, entry) THEN [q EXCEPT !.raised = TRUE]
    ELSE IF ~IsNumericCol(q.df, ColMap(q.df, entry)[func]) THEN [q EXCEPT !.raised = TRUE]
    ELSE OutliersWith(q, entry.col, func, ColMap(q.df, entry)[func],
                      SortCells(NonNull([k \in 1..Len(q.df.rows) |->
                                    q.df.rows[k][ColMap(q.df, entry)[func]]])))

\* "f" in summary_funcs[name]: a substring of a str, a member of a list
Declares(funcs, name, f) ==
    \E i \in 1..Len(funcs) :
        /\ funcs[i].col = name
        /\ IF funcs[i].single THEN Contains(funcs[i].fs[1], f)
           ELSE f \in Range(funcs[i].fs)

\* lines 592-595: a column named after Count or ScientificName, when the
\* column of exactly that name declares the function
OutliersNamed(q, entry, funcs, name, func) ==
    IF ~q.raised /\ Contains(entry.col, name) /\ Declares(funcs, name, func)
    THEN qa_outliers(q, func, entry) ELSE q

\* lines 597-600: a column aggregated with the function
OutliersOf(q, entry, func) ==
    IF ~q.raised /\ func \in DOMAIN ColMap(q.df, entry)
    THEN qa_outliers(q, func, entry) ELSE q

\* lines 601-619: a date column aggregated with the function
OutliersOfDate(q, entry, func) ==
    IF Contains(entry.col, "Date") THEN OutliersOf(q, entry, func) ELSE q

\* lines 592-621: the outlier rules, in order
RuleOutliers(q, entry, funcs) ==
    OutliersOfDate(
        OutliersOfDate(
            OutliersOf(
                OutliersOf(
                    OutliersNamed(
                        OutliersNamed(q, entry, funcs, "Count", "sum"),
                        entry, funcs, "ScientificName", "nunique"),
                    entry, "count"),
                entry, "sum"),
            entry, "count"),
        entry, "nunique")

\* lines 516-621 for one (col, funcs) item
QAIter(q, entry, funcs) ==
    RuleOutliers(RuleSoilMoisture(RuleMax(RuleEquality(RuleRange(q, entry), entry),
                                          entry),
                                  entry, funcs),
                 entry, funcs)

RECURSIVE QAAll(_, _, _)
\* lines 516-621: the loop over summary_funcs.items(), from item i on
QAAll(q, funcs, i) ==
    IF i > Len(funcs) \/ q.raised THEN q
    ELSE QAAll(QAIter(q, funcs[i], funcs), funcs, i + 1)

(***************************************************************************)
(* The inputs of the summary runs: workbooks, JoinSpecs and SummaryDefs    *)
(***************************************************************************)
MaxRows == 2

MaxDefs == 2

SurveyCols ==
    <<"SamplePointName", "TransectID", "SamplingUnitID", "Year", "PercentCover", "Count">>

SurveyRow(spn, tid, suid, year, cover, count) ==
    [SamplePointName |-> spn, TransectID |-> tid, SamplingUnitID |-> suid,
     Year |-> year, PercentCover |-> cover, Count |-> count]

\* the rows small survey tables are made of: nulls in the grouping columns,
\* cover values below, at and above the limits, repeated and missing counts
RowPool ==
    <<SurveyRow(Str("p"), Num(1), Num(1), Num(2025), Num(50), Num(2)),
      SurveyRow(Str("p"), Num(1), Num(2), Num(2025), Num(101), Num(2)),
      SurveyRow(Str("q"), Null, Num(3), Num(2025), Frac(203, 2), Num(3)),
      SurveyRow(Null, Num(2), Num(4), Num(2026), Null, Null),
      SurveyRow(Str("q"), Num(2), Num(5), Num(2026), Num(-1), Num(0)),
      SurveyRow(Null, Null, Num(6), Num(2026), Num(0), Num(5))>>

\* the survey tables with at most MaxRows rows of the pool, in pool order
SmallTables ==
    {[cols |-> SurveyCols,
      rows |-> [i \in 1..Cardinality(S) |-> RowPool[SeqOfSet(S)[i]]]] :
        S \in {S \in SUBSET (1..Len(RowPool)) : Cardinality(S) <= MaxRows}}

\* the frame without the columns in drop
DropCols(df, drop) ==
    [cols |-> SeqFilter(df.cols, Cols(df) \ drop),
     rows |-> [i \in 1..Len(df.rows) |-> [c \in Cols(df) \ drop |-> df.rows[i][c]]]]

\* a survey of n sampling units, one row each, on two sample points
BigTable(n, nullTransect) ==
    [cols |-> SurveyCols,
     rows |-> [i \in 1..n |->
        SurveyRow(IF i % 2 = 1 THEN Str("p") ELSE Str("q"),
                  IF nullTransect /\ i = 1 THEN Null ELSE Num(i % 3),
                  Num(i), Num(2025), Num(i % 4), Num(1))]]

\* surveys at and just above the group threshold, with and without TransectID
BigTables ==
    {IF withTransect THEN BigTable(n, nullTransect)
     ELSE DropCols(BigTable(n, nullTransect), {"TransectID"}) :
        n \in {GroupThreshold, GroupThreshold + 1},
        nullTransect \in BOOLEAN, withTransect \in BOOLEAN}

\* the sampling units sheet: the first four units with their point and transect
UnitsTable ==
    [cols |-> <<"SamplingUnitID", "SamplePointName", "TransectID">>,
     rows |-> [i \in 1..4 |->
        [SamplingUnitID |-> RowPool[i].SamplingUnitID,
         SamplePointName |-> RowPool[i].SamplePointName,
         TransectID |-> RowPool[i].TransectID]]]

Single(col, f) == [col |-> col, single |-> TRUE, fs |-> <<f>>]

List(col, fs) == [col |-> col, single |-> FALSE, fs |-> fs]

\* a function, a list of one function or a list of two different functions
FuncChoices(col) ==
    {Single(col, f) : f \in Functions}
    \cup {List(col, <<f>>) : f \in Functions}
    \cup {List(col, <<p[1], p[2]>>) :
             p \in {p \in Functions \X Functions : StrLess(p[1], p[2])}}

NoFilter == <<>>

Sentinel(col, text) ==
    [col |-> col, cond |-> [kind |-> "str", text |-> text, ops |-> <<>>]]

Def(name, table, by, summary) ==
    [name |-> name, table |-> table, group_by |-> by, summary |-> summary,
     hasFilter |-> FALSE, filter |-> NoFilter,
     hasSum |-> FALSE, sum_columns |-> <<>>, new_column_name |-> ""]

WithFilter(def, filter) == [def EXCEPT !.hasFilter = TRUE, !.filter = filter]

WithSum(def, cols, new) ==
    [def EXCEPT !.hasSum = TRUE, !.sum_columns = cols, !.new_column_name = new]

Workbook(t) == [Survey |-> t]

Scenario(gs, joins, defs) == [groups |-> gs, joins |-> joins, config |-> defs]

\* one SummaryDef with every shape of function declaration, on a small table
NamingScenarios ==
    {Scenario(<<Workbook(t)>>, <<>>, <<Def("s1", "Survey", by, <<e>>)>>) :
        t \in SmallTables,
        by \in {<<"SamplePointName">>, <<"Year", "TransectID">>},
        e \in FuncChoices("PercentCover") \cup FuncChoices("Count")}

\* the summaries of surveys at the group threshold
CardinalityDefs ==
    {Def("s1", "Survey", by, sm) :
        by \in {<<"SamplingUnitID">>, <<"Year", "SamplingUnitID">>, <<"Year">>},
        sm \in {<<Single("PercentCover", "sum")>>,
                <<List("PercentCover", <<"sum">>)>>,
                <<List("PercentCover", <<"count", "sum">>)>>,
                <<Single("PercentCover", "max")>>,
                <<Single("PercentCover", "sum"), Single("Count", "sum")>>,
                <<Single("Count", "sum"), List("PercentCover", <<"min", "max">>)>>}}

CardinalityScenarios ==
    {Scenario(<<Workbook(t)>>, <<>>, <<d>>) : t \in BigTables, d \in CardinalityDefs}

\* SummaryDefs as the configurations write them: filtered, with a derived
\* column, over a column or a table that does not exist
PipelineDefs ==
    {WithFilter(Def("transects", "Survey", <<"SamplePointName">>,
                    <<Single("TransectID", "nunique")>>),
                <<Sentinel("TransectID", "is not null")>>),
     WithFilter(Def("plots", "Survey", <<"SamplePointName">>,
                    <<List("SamplingUnitID", <<"nunique", "count">>)>>),
                <<Sentinel("TransectID", "is null")>>),
     WithSum(Def("total", "Survey", <<"SamplingUnitID", "Year">>,
                 <<Single("sumCover", "sum")>>),
             <<"PercentCover", "Count">>, "sumCover"),
     Def("cover", "Survey", <<"TransectID">>, <<Single("PercentCover", "sum")>>),
     Def("records", "Survey", <<"SamplePointName">>, <<Single("Count", "count")>>),
     Def("zone", "Survey", <<"Zone">>, <<Single("Count", "count")>>),
     Def("catch", "Catch", <<"SamplePointName">>, <<Single("Count", "sum")>>)}

\* the SummaryDefs in the order the configuration lists them
PipelineOrder ==
    <<"transects", "plots", "total", "zone", "cover", "records", "catch">>

\* ordered mappings of at most MaxDefs of the SummaryDefs, in that order
DefSeqs(defs) ==
    UNION {{q \in [1..m -> defs] :
               \A i, j \in 1..m :
                   i < j => IndexOf(PipelineOrder, q[i].name)
                            < IndexOf(PipelineOrder, q[j].name)} :
              m \in 1..MaxDefs}

UnitsJoin ==
    <<[left |-> "Survey", right |-> "Units", on |-> <<"SamplingUnitID">>, how |-> "left"]>>

\* a run of main over one group: the survey sheet alone, or without its point
\* and transect columns and joined with the sampling units sheet
PipelineScenarios ==
    {Scenario(<<Workbook(t)>>, <<>>, q) :
        t \in {t \in SmallTables : Len(t.rows) = MaxRows},
        q \in DefSeqs(PipelineDefs)}
    \cup {Scenario(<<[Survey |-> DropCols(t, {"SamplePointName", "TransectID"}),
                      Units |-> UnitsTable]>>, UnitsJoin, q) :
             t \in {t \in SmallTables : Len(t.rows) = MaxRows},
             q \in DefSeqs(PipelineDefs)}

\* two groups share one configuration: a large survey, then a small one
GroupScenarios ==
    {Scenario(<<Workbook(big), Workbook(t)>>, <<>>, <<d>>) :
        big \in {BigTable(GroupThreshold + 1, FALSE)},
        t \in {t \in SmallTables : Len(t.rows) = MaxRows},
        d \in {d \in CardinalityDefs : Len(d.summary) = 1}}

OutlierRows == 5

\* surveys of OutlierRows sampling units, one record each, with a count of
\* 1, of 100 or none
OutlierTables ==
    {[cols |-> SurveyCols,
      rows |-> [i \in 1..OutlierRows |->
                  SurveyRow(Str("p"), Num(1), Num(i), Num(2025), Num(0), counts[i])]] :
        counts \in [1..OutlierRows -> {Num(1), Num(100), Null}]}

\* the counts of each sampling unit summed, counted and averaged
OutlierScenarios ==
    {Scenario(<<Workbook(t)>>, <<>>, <<Def("s1", "Survey", <<"SamplingUnitID">>, <<e>>)>>) :
        t \in OutlierTables,
        e \in {Single("Count", "sum"), Single("Count", "count"), Single("Count", "mean")}}

\* the frame with column old under the name new
RenameCol(df, old, new) ==
    [cols |-> [i \in 1..Len(df.cols) |-> IF df.cols[i] = old THEN new ELSE df.cols[i]],
     rows |-> [i \in 1..Len(df.rows) |->
                  [c \in (Cols(df) \ {old}) \cup {new} |->
                      IF c = new THEN df.rows[i][old] ELSE df.rows[i][c]]]]

\* sheets whose columns carry the names the rules look for, each with a
\* SummaryDef over them: a depth, a cover name with a suffix, two cover
\* columns, a date and a species name
RuleCases ==
    {[old |-> "PercentCover", new |-> "WaterDepth", by |-> <<"SamplePointName">>,
      summary |-> <<List("WaterDepth", <<"min", "mean", "max">>)>>],
     [old |-> "PercentCover", new |-> "CloudCoverPercent", by |-> <<"SamplePointName">>,
      summary |-> <<Single("CloudCoverPercent", "max")>>],
     [old |-> "Count", new |-> "LitterCover", by |-> <<"Year">>,
      summary |-> <<Single("PercentCover", "sum"), Single("LitterCover", "sum")>>],
     [old |-> "Count", new |-> "LitterCover", by |-> <<"Year">>,
      summary |-> <<List("PercentCover", <<"count", "nunique">>),
                    List("LitterCover", <<"count", "nunique">>)>>],
     [old |-> "Year", new |-> "SampleDate", by |-> <<"SamplePointName">>,
      summary |-> <<List("SampleDate", <<"count", "nunique">>)>>],
     [old |-> "Year", new |-> "SampleDate", by |-> <<"SamplePointName">>,
      summary |-> <<Single("SampleDate", "nunique")>>],
     [old |-> "SamplePointName", new |-> "ScientificName", by |-> <<"Year">>,
      summary |-> <<Single("ScientificName", "nunique")>>],
     [old |-> "SamplePointName", new |-> "ScientificName", by |-> <<"Year">>,
      summary |-> <<Single("ScientificName", "nunique"), Single("Count", "mean")>>],
     [old |-> "PercentCover", new |-> "sumGrndCover", by |-> <<"SamplePointName">>,
      summary |-> <<Single("sumGrndCover", "max")>>],
     [old |-> "Year", new |-> "Year", by |-> <<"SamplePointName">>,
      summary |-> <<Single("SamplingUnitID", "nunique"), Single("Count", "count"),
                    Single("TransectID", "count")>>]}

RuleScenarios ==
    {Scenario(<<Workbook(RenameCol(t, c.old, c.new))>>, <<>>,
              <<Def("s1", "Survey", c.by, c.summary)>>) :
        t \in {t \in SmallTables : Len(t.rows) = MaxRows}, c \in RuleCases}
    \cup {Scenario(<<Workbook(RenameCol(RenameCol(t, "TransectID", "QuadratPlotID"),
                                        "Count", "SoilMoisture"))>>, <<>>,
                   <<Def("s1", "Survey", <<"SamplingUnitID", "Year">>, sm)>>) :
             t \in {t \in SmallTables : Len(t.rows) = MaxRows},
             sm \in {<<Single("QuadratPlotID", "count"), Single("SoilMoisture", "count")>>,
                     <<Single("QuadratPlotID", "nunique"), Single("SoilMoisture", "count")>>,
                     <<Single("SoilMoisture", "count")>>}}
    \cup {Scenario(<<Workbook([t EXCEPT !.rows[1]["PercentCover"] = Frac(1, 32)])>>, <<>>,
                   <<Def("s1", "Survey", <<"SamplingUnitID">>,
                         <<Single("PercentCover", "max")>>)>>) :
             t \in {t \in SmallTables : Len(t.rows) = MaxRows}}
    \cup LET dates == <<"2026-03-01", "2026-03-20", "2026-03-01",
                        "2026-03-05", "2026-03-05", "2026-03-09">>
             Dated(r) ==
                 [r EXCEPT !.rows =
                     [i \in 1..Len(r.rows) |->
                         [r.rows[i] EXCEPT
                             !["VisitDate"] = Str(dates[r.rows[i]["SamplingUnitID"].n])]]]
         IN  {Scenario(<<Workbook(Dated(RenameCol(t, "Year", "VisitDate")))>>, <<>>,
                       <<Def("s1", "Survey", <<"SamplePointName">>,
                             <<List("VisitDate", <<"count", "min", "max">>)>>)>>) :
                 t \in {t \in SmallTables : Len(t.rows) = MaxRows}}

\* one filtered SummaryDef: operator terms on a column of the sheet, terms on
\* a column it lacks, an operator filter_df does not know, no term at all
FilterScenarios ==
    LET Op(col, op, vals, isList) ==
            <<[col |-> col,
               cond |-> [kind |-> "dict", text |-> "",
                         ops |-> <<[op |-> op, val |-> vals, isList |-> isList]>>]]>>
        filters == {Op("Count", ">", {Num(0)}, FALSE),
                    Op("Count", "!=", {Num(2)}, FALSE),
                    Op("Count", "in", {Num(2), Num(3)}, TRUE),
                    Op("Zone", ">", {Num(0)}, FALSE),
                    Op("Zone", "~", {Num(0)}, FALSE),
                    <<Sentinel("Zone", "is null")>>,
                    <<Sentinel("TransectID", "Is Null")>>,
                    <<Sentinel("TransectID", "IS NOT NULL"),
                      Sentinel("SamplePointName", "is null")>>,
                    NoFilter}
    IN  {Scenario(<<Workbook(t)>>, <<>>,
                  <<WithFilter(Def("s1", "Survey", <<"SamplePointName">>,
                                   <<Single("Count", "count")>>), f)>>) :
            t \in {t \in SmallTables : Len(t.rows) = MaxRows}, f \in filters}

Scenarios ==
    FilterScenarios \cup RuleScenarios \cup NamingScenarios \cup CardinalityScenarios \cup PipelineScenarios \cup GroupScenarios
    \cup OutlierScenarios

(***************************************************************************)
(* main, QA_report.py lines 954-961, and generate_effort_summaries, lines  *)
(* 417-625, one loop iteration per step.  An exception is caught nowhere:  *)
(* it leaves generate_effort_summaries and main, and the run is over.      *)
(***************************************************************************)
Init ==
    /\ pc = "main"
    /\ \E sc \in Scenarios :
          /\ groups = sc.groups
          /\ joins_required = sc.joins
          /\ summaries_config = sc.config
          /\ config0 = sc.config
    /\ gi = 0
    /\ dfs = <<>>
    /\ joined_dfs = <<>>
    /\ joined0 = <<>>
    /\ ji = 0
    /\ joinlog = <<>>
    /\ diag = <<>>
    /\ si = 0
    /\ summary_tables = <<>>
    /\ cur = <<>>
    /\ delivered = <<>>

\* lines 954-957: the next group's tables are joined
MainJoin ==
    /\ pc = "main"
    /\ gi < Len(groups)
    /\ LET Land(js) ==
               /\ dfs' = groups[gi + 1]
               /\ joined_dfs' = js.joined
               /\ joined0' = js.joined
               /\ joinlog' = js.log
               /\ diag' = diag \o js.diag
               /\ pc' = IF js.raised THEN "raised" ELSE "summaries"
       IN  Land(join_tables_generic(groups[gi + 1], joins_required))
    /\ si' = 0
    /\ summary_tables' = <<>>
    /\ UNCHANGED <<joins_required, ji, groups, gi, summaries_config, config0, cur,
                   delivered>>

\* lines 426-430: the SummaryDef names a table that is not there
SummarySkip ==
    /\ pc = "summaries"
    /\ si < Len(summaries_config)
    /\ summaries_config[si + 1].table \notin DOMAIN joined_dfs
    /\ diag' = Append(diag, [msg |-> "summary table not found",
                             left |-> summaries_config[si + 1].table,
                             right |-> summaries_config[si + 1].name])
    /\ si' = si + 1
    /\ UNCHANGED <<pc, joinVars, groups, gi, summaries_config, config0, joined0,
                   summary_tables, cur, delivered>>

\* lines 432-513: filter, fill, derive, group, aggregate and flatten; the
\* writes to df and to summary_funcs land in joined_dfs and in the configuration
SummaryAggregate ==
    /\ pc = "summaries"
    /\ si < Len(summaries_config)
    /\ summaries_config[si + 1].table \in DOMAIN joined_dfs
    /\ LET def == summaries_config[si + 1]
           Land(w) ==
               /\ joined_dfs' = Put(joined_dfs, def.table, w.tbl)
               /\ summaries_config' = [summaries_config EXCEPT ![si + 1].summary = w.funcs]
               /\ diag' = diag \o w.diag
               /\ cur' = [name |-> def.name, table |-> def.table, w |-> w, qi |-> 0,
                          q |-> [df |-> w.summary_df, applied |-> <<>>, raised |-> FALSE,
                                 floats |-> w.qfloats]]
               /\ pc' = IF w.raised THEN "raised" ELSE "qa"
       IN  Land(Summarise(joined_dfs[def.table], def))
    /\ UNCHANGED <<dfs, joins_required, ji, joinlog, groups, gi, config0, joined0, si,
                   summary_tables, delivered>>

\* lines 518-621: the QA rules for the next item of summary_funcs
QAStep ==
    /\ pc = "qa"
    /\ cur.qi < Len(cur.w.funcs)
    /\ LET Land(q) ==
               /\ cur' = [cur EXCEPT !.q = q, !.qi = @ + 1]
               /\ pc' = IF q.raised THEN "raised" ELSE "qa"
       IN  Land(QAIter(cur.q, cur.w.funcs[cur.qi + 1], cur.w.funcs))
    /\ UNCHANGED <<diag, joinVars, groups, gi, summaries_config, config0, joined0, si,
                   summary_tables, delivered>>

\* the annotated table stored ahead of the tables stored before it
SummaryStoreFirst ==
    /\ pc = "qa"
    /\ cur.qi = Len(cur.w.funcs)
    /\ summary_tables' = <<[name |-> cur.name, table |-> cur.table, df |-> cur.q.df]>>
                         \o summary_tables
    /\ si' = si + 1
    /\ pc' = "summaries"
    /\ UNCHANGED <<diag, joinVars, groups, gi, summaries_config, config0, joined0, cur,
                   delivered>>

\* line 623: the annotated table is stored under the summary's name
SummaryStore ==
    /\ pc = "qa"
    /\ cur.qi = Len(cur.w.funcs)
    /\ summary_tables' = Append(summary_tables,
                                [name |-> cur.name, table |-> cur.table,
                                 df |-> cur.q.df])
    /\ si' = si + 1
    /\ pc' = "summaries"
    /\ UNCHANGED <<diag, joinVars, groups, gi, summaries_config, config0, joined0, cur,
                   delivered>>

\* lines 625 and 960-979: the summaries are returned and go to the plots,
\* the CSV export and the Markdown report of this group
SummariesReturn ==
    /\ pc = "summaries"
    /\ si = Len(summaries_config)
    /\ delivered' = Append(delivered, summary_tables)
    /\ pc' = "report"
    /\ UNCHANGED <<diag, joinVars, groups, gi, summaries_config, config0, joined0, si,
                   summary_tables, cur>>

\* line 832: round(4) keeps four decimals
ReportScale == 10000

\* Series.round(4) of one cell: the nearest multiple of 1/10000, a tie to
\* the even one; nulls and text stay
RoundCell(v) ==
    IF ~IsNum(v) THEN v
    ELSE LET scaled == Abs(v.n) * ReportScale
             down == scaled \div v.d
             twice == 2 * (scaled % v.d)
             m == IF twice > v.d \/ (twice = v.d /\ down % 2 = 1) THEN down + 1 ELSE down
         IN  Frac(IF v.n < 0 THEN 0 - m ELSE m, ReportScale)

\* lines 826-832: an empty table is passed over; the numeric columns of
\* another are assigned their rounded values, in the table itself
RoundNumeric(df) ==
    IF df.rows = <<>> THEN df
    ELSE [df EXCEPT !.rows =
            [i \in 1..Len(df.rows) |->
                [c \in DOMAIN df.rows[i] |->
                    IF IsNumericCol(df, c) THEN RoundCell(df.rows[i][c])
                    ELSE df.rows[i][c]]]]

\* lines 981-992 and 818-832: create_pdf_report renders every table of the
\* mapping generate_effort_summaries returned, and the group is done
PdfReport ==
    /\ pc = "report"
    /\ summary_tables' = [k \in 1..Len(summary_tables) |->
                             [summary_tables[k] EXCEPT !.df = RoundNumeric(@)]]
    /\ gi' = gi + 1
    /\ pc' = "main"
    /\ UNCHANGED <<diag, joinVars, groups, summaries_config, config0, joined0, si,
                   cur, delivered>>

\* line 954: no group is left
MainDone ==
    /\ pc = "main"
    /\ gi = Len(groups)
    /\ pc' = "finished"
    /\ UNCHANGED <<diag, joinVars, sumVars>>

Next ==
    \/ MainJoin
    \/ SummarySkip
    \/ SummaryAggregate
    \/ QAStep
    \/ SummaryStore
    \/ SummariesReturn
    \/ PdfReport
    \/ MainDone

Spec == Init /\ [][Next]_vars

(***************************************************************************)
(* Claims about generate_effort_summaries.  At pc = "qa" the SummaryDef    *)
(* config0[si + 1] has been aggregated: cur.w holds the table after the    *)
(* filter (filtered), the grouping and the functions in force (group_by,   *)
(* funcs) and the table before the QA rules (summary_df); cur.q.df is the  *)
(* table after the rules of the first cur.qi items of the mapping.         *)
(***************************************************************************)

\* C4: no row of the (filtered) table is dropped for a null in a grouping
\* column: every row is in the group of its own key values, a null reading
\* as the placeholder "Missing"
C4_NullGroupKept ==
    pc = "qa" =>
        \A i \in 1..Len(cur.w.filtered.rows) :
            \E k \in 1..Len(cur.w.summary_df.rows) :
                \A c \in Range(cur.w.group_by) :
                    cur.w.summary_df.rows[k][c] =
                        IF IsNull(cur.w.filtered.rows[i][c]) THEN Str("Missing")
                        ELSE cur.w.filtered.rows[i][c]

C6_Remediation ==
    pc = "qa" =>
        LET def == config0[si + 1]
            w == cur.w
        IN  IF /\ w.num_groups > 50
               /\ "SamplingUnitID" \in Range(def.group_by)
               /\ {"SamplePointName", "TransectID"} \subseteq Cols(w.filtered)
            THEN /\ w.group_by =
                       SelectSeq(def.group_by, LAMBDA c : c # "SamplingUnitID")
                       \o <<"SamplePointName", "TransectID">>
                 /\ \A i \in 1..Len(def.summary) :
                       /\ w.funcs[i].col = def.summary[i].col
                       /\ "sum" \notin Range(w.funcs[i].fs)
                       /\ "sum" \notin Range(def.summary[i].fs) =>
                             w.funcs[i] = def.summary[i]
                 /\ \A c \in Cols(w.summary_df) : ~EndsWith(c, "\nsum")
            ELSE /\ w.group_by = def.group_by
                 /\ w.funcs = def.summary

\* C7: when a SummaryDef fails for a group-by column its table lacks, every
\* other SummaryDef of the list whose table and group-by columns are there
\* has its SummaryTable among those handed to the consumers
C7_AbortsOnlyThatSummary ==
    LET Lacking(d) ==
            /\ d.table \in DOMAIN joined0
            /\ ~(Range(d.group_by) \subseteq Cols(joined0[d.table]))
        Sound(d) ==
            /\ d.table \in DOMAIN joined0
            /\ Range(d.group_by) \subseteq Cols(joined0[d.table])
    IN  pc = "raised" /\ si < Len(config0) /\ Lacking(config0[si + 1]) =>
            \A j \in (1..Len(config0)) \ {si + 1} :
                Sound(config0[j]) =>
                    \E g \in 1..Len(delivered) : \E k \in 1..Len(delivered[g]) :
                        delivered[g][k].name = config0[j].name

\* C8: summarization leaves the joined tables as the join returned them:
\* same columns, same cells, whatever SummaryDefs have been processed
C8_TablesReadOnly == joined_dfs = joined0

\* C9: after the range check of a cover column, each row's verdict is the
\* checkmark iff 0 <= value <= 101, "{col}_{func} > 101%" iff value > 101,
\* "{col}_{func} negative" iff value < 0 and "{col}_{func} missing" iff the
\* value is null, and it is one of these four
C9_RangeVerdicts ==
    pc = "qa" /\ cur.qi > 0 =>
        \A a \in Range(cur.q.applied) :
            a.rule = "range" /\ a.col = cur.w.funcs[cur.qi].col =>
                \A k \in 1..Len(cur.q.df.rows) :
                    LET v == cur.q.df.rows[k][a.checked]
                        verdict == cur.q.df.rows[k]["QA Check\nrange check\n0-100% +1"].s
                        Flags(text) == {a.col \o "_" \o f \o text : f \in Functions}
                    IN  /\ verdict = Checkmark
                              <=> (IsNum(v) /\ 0 <= v.n /\ v.n <= 101 * v.d)
                        /\ verdict \in Flags(" > 101%") <=> (IsNum(v) /\ v.n > 101 * v.d)
                        /\ verdict \in Flags(" negative") <=> (IsNum(v) /\ v.n < 0)
                        /\ verdict \in Flags(" missing") <=> IsNull(v)
                        /\ verdict \in {Checkmark} \cup Flags(" > 101%")
                                       \cup Flags(" negative") \cup Flags(" missing")

\* C9 witness: a checked maximum of exactly 101 carries the checkmark and,
\* in the same table, one of 101.5 is flagged as above 101%
C9_Witness ==
    /\ pc = "qa"
    /\ cur.qi > 0
    /\ \E a \in Range(cur.q.applied) :
          /\ a.rule = "range"
          /\ a.checked = "PercentCover\nmax"
          /\ \E k1, k2 \in 1..Len(cur.q.df.rows) :
                /\ cur.q.df.rows[k1][a.checked] = Num(101)
                /\ cur.q.df.rows[k1][a.qa] = Str(Checkmark)
                /\ cur.q.df.rows[k2][a.checked] = Frac(203, 2)
                /\ cur.q.df.rows[k2][a.qa] = Str("PercentCover_max > 101%")

\* C10: when a column is aggregated with both count and nunique (the count
\* column being numeric), the table has the equality verdict column, and
\* each row of it is the checkmark iff count equals nunique and "mismatched"
\* iff they differ
C10_CountVsNunique ==
    pc = "qa" /\ cur.qi > 0 =>
        LET entry == cur.w.funcs[cur.qi]
            df == cur.q.df
            count == entry.col \o "\nrecords"
            nunique == entry.col \o "\nnunique"
            verdicts == "QA Check\nequality\nunique = count"
        IN  {"count", "nunique"} \subseteq Range(entry.fs) =>
               /\ verdicts \in Cols(df)
               /\ \A k \in 1..Len(df.rows) :
                     /\ df.rows[k][verdicts] = Str(Checkmark)
                           <=> df.rows[k][count] = df.rows[k][nunique]
                     /\ df.rows[k][verdicts] = Str("mismatched")
                           <=> df.rows[k][count] # df.rows[k][nunique]

\* C10 witness: a group of two records with one distinct value is marked
\* "mismatched"
C10_Witness ==
    /\ pc = "qa"
    /\ cur.qi > 0
    /\ "Count\nrecords" \in Cols(cur.q.df)
    /\ "Count\nnunique" \in Cols(cur.q.df)
    /\ \E k \in 1..Len(cur.q.df.rows) :
          /\ cur.q.df.rows[k]["Count\nrecords"] = Num(2)
          /\ cur.q.df.rows[k]["Count\nnunique"] = Num(1)
          /\ cur.q.df.rows[k]["QA Check\nequality\nunique = count"] = Str("mismatched")

(***************************************************************************)
(* Claims about the QA rules and the row filter                            *)
(***************************************************************************)

\* C11: in every outlier column, with Q1 and Q3 the linear-interpolation
\* quartiles of the non-null values of the checked column, lower = Q1 - 1.5
\* (Q3 - Q1) and upper = Q3 + 1.5 (Q3 - Q1), each non-null row reads
\* "high ..." iff its value > upper, "low ..." iff its value < lower and the
\* checkmark iff lower <= value <= upper
C11_OutlierVerdicts ==
    pc = "qa" =>
        \A a \in Range(cur.q.applied) :
            a.rule = "outliers" =>
                LET rows == cur.q.df.rows
                    x == SortCells(NonNull([k \in 1..Len(rows) |-> rows[k][a.checked]]))
                    At(h) == IF h % 4 = 0 THEN x[h \div 4 + 1]
                             ELSE AddCells(x[h \div 4 + 1],
                                      MulCells(Frac(h % 4, 4),
                                               SubCells(x[h \div 4 + 2], x[h \div 4 + 1])))
                    q1 == At(Len(x) - 1)
                    q3 == At(3 * (Len(x) - 1))
                    spread == MulCells(Frac(3, 2), SubCells(q3, q1))
                    lower == SubCells(q1, spread)
                    upper == AddCells(q3, spread)
                    Over(v) == v.n * upper.d > upper.n * v.d
                    Under(v) == v.n * lower.d < lower.n * v.d
                IN  \A k \in 1..Len(rows) :
                       IsNum(rows[k][a.checked]) =>
                          LET v == rows[k][a.checked]
                              verdict == rows[k][a.qa].s
                          IN  /\ (Len(verdict) > 5 /\ SubSeq(verdict, 1, 5) = "high ")
                                    <=> Over(v)
                              /\ (Len(verdict) > 4 /\ SubSeq(verdict, 1, 4) = "low ")
                                    <=> Under(v)
                              /\ verdict = Checkmark <=> (~Over(v) /\ ~Under(v))

\* C11 witness: the sums 1, 1, 1, 1, 100 of five groups: the 100 is flagged
\* high, the four others carry the checkmark
C11_Witness ==
    /\ pc = "qa"
    /\ Len(cur.q.df.rows) = 5
    /\ \E a \in Range(cur.q.applied) :
          /\ a.rule = "outliers"
          /\ a.checked = "Count\nsum"
          /\ \E h \in 1..5 :
                /\ cur.q.df.rows[h][a.checked] = Num(100)
                /\ cur.q.df.rows[h][a.qa] = Str("high Count_sum")
                /\ \A k \in (1..5) \ {h} :
                      /\ cur.q.df.rows[k][a.checked] = Num(1)
                      /\ cur.q.df.rows[k][a.qa] = Str(Checkmark)

\* C12: running the QA rules again over the annotated table changes nothing:
\* no column is added and every verdict column reads as after the first run,
\* which is also what the rules give in one pass over the table before QA
C12_QAIdempotent ==
    pc = "qa" /\ cur.qi = Len(cur.w.funcs) =>
        /\ QAAll(cur.q, cur.w.funcs, 1).df = cur.q.df
        /\ ~QAAll(cur.q, cur.w.funcs, 1).raised
        /\ QAAll([cur.q EXCEPT !.df = cur.w.summary_df, !.applied = <<>>],
                 cur.w.funcs, 1).df = cur.q.df

\* C12 witness: the count outlier rule has run twice for a date column and
\* the annotated table, with groups in it, holds its verdict column once
C12_Witness ==
    /\ pc = "qa"
    /\ cur.qi = Len(cur.w.funcs)
    /\ Len(cur.q.df.rows) > 1
    /\ \E i, j \in 1..Len(cur.q.applied) :
          /\ i < j
          /\ cur.q.applied[i].rule = "outliers"
          /\ cur.q.applied[i].checked = "SampleDate\nrecords"
          /\ cur.q.applied[j] = cur.q.applied[i]
          /\ Cardinality({k \in 1..Len(cur.q.df.cols) :
                             cur.q.df.cols[k] = cur.q.applied[i].qa}) = 1

\* C13: a filter of one operator term on a column of the table returns
\* exactly the rows whose cell satisfies the operator against the value
C13_OperatorTermsFilter ==
    pc = "qa" /\ gi = 0 /\ si = 0 /\ config0[1].hasFilter =>
        LET term == config0[1].filter[1]
            o == term.cond.ops[1]
            table == joined0[config0[1].table]
            v == CHOOSE v \in o.val : TRUE
            Holds(c) ==
                CASE o.op = "<" -> IsNum(c) /\ c.n * v.d < v.n * c.d
                  [] o.op = ">" -> IsNum(c) /\ c.n * v.d > v.n * c.d
                  [] o.op = "==" -> c = v
                  [] o.op = "!=" -> c # v
                  [] o.op = "in" -> c \in o.val
                  [] OTHER -> c \notin o.val
        IN  /\ Len(config0[1].filter) = 1
            /\ term.cond.kind = "dict"
            /\ term.col \in Cols(table)
            /\ o.op \in {"<", ">", "==", "!="} \/ (o.op \in {"in", "not in"} /\ o.isList)
            => cur.w.filtered.rows = SelectSeq(table.rows, LAMBDA r : Holds(r[term.col]))

\* C14: filter_df raises for no FilterSpec and no table, and terms on a
\* column the table lacks leave its rows as they are, with a diagnostic
C14_FilterNeverFails ==
    (pc = "qa" \/ pc = "raised") /\ DOMAIN cur # {} /\ gi = 0 /\ si = 0 =>
        /\ ~cur.w.filterRaised
        /\ config0[1].hasFilter /\ pc = "qa"
           /\ (\A i \in 1..Len(config0[1].filter) :
                  config0[1].filter[i].col \notin Cols(joined0[config0[1].table]))
           => /\ cur.w.filtered.rows = joined0[config0[1].table].rows
              /\ Len(cur.w.diag) > 0

\* C15: what generate_effort_summaries returns lists, in the order of the
\* configuration, exactly the SummaryDefs whose table is among the joined
\* tables, each with the name of its source table
C15_SummariesInConfigOrder ==
    pc = "main" /\ gi > 0 =>
        LET present == SelectSeq(config0, LAMBDA d : d.table \in DOMAIN joined0)
        IN  /\ Len(delivered[gi]) = Len(present)
            /\ \A k \in 1..Len(present) :
                  /\ delivered[gi][k].name = present[k].name
                  /\ delivered[gi][k].table = present[k].table

\* C15 witness: two SummaryDefs, one of them filtered, are returned in the
\* order of the configuration
C15_Witness ==
    /\ pc = "main"
    /\ gi > 0
    /\ Len(config0) = 2
    /\ config0[1].hasFilter
    /\ Len(delivered[gi]) = 2
    /\ delivered[gi][1].name = config0[1].name
    /\ delivered[gi][2].name = config0[2].name

\* C16: every verdict column written by a QA rule is complete: each row
\* carries the checkmark or a violation text, none the initial empty string
C16_VerdictsComplete ==
    pc = "qa" =>
        \A a \in Range(cur.q.applied) :
            \A k \in 1..Len(cur.q.df.rows) :
                cur.q.df.rows[k][a.qa] # Str("")

\* C17: when the QA rules of a summary are done, the annotated table carries,
\* for every original column that triggers the range check or the equality
\* check, a column holding the verdicts that rule computes for that column
C17_RulesPerColumn ==
    pc = "qa" /\ cur.qi = Len(cur.w.funcs) =>
        LET before == [cur.q EXCEPT !.df = cur.w.summary_df, !.applied = <<>>]
            Carried(alone) ==
                alone.applied # <<>> =>
                    \E c \in Cols(cur.q.df) :
                        \A k \in 1..Len(cur.q.df.rows) :
                            cur.q.df.rows[k][c] = alone.df.rows[k][alone.applied[1].qa]
        IN  \A i \in 1..Len(cur.w.funcs) :
               /\ Carried(RuleRange(before, cur.w.funcs[i]))
               /\ Carried(RuleEquality(before, cur.w.funcs[i]))

\* C18: once the rules of an original column whose name contains "cover"
\* (in any case) have run, each of its sum, max and min columns has been
\* range-checked
C18_RangeCheckApplies ==
    pc = "qa" /\ cur.qi > 0 =>
        LET entry == cur.w.funcs[cur.qi]
            cm == ColMap(cur.w.summary_df, entry)
        IN  Contains(Lower(entry.col), "cover") =>
               \A f \in {"sum", "max", "min"} \cap DOMAIN cm :
                  \E a \in Range(cur.q.applied) :
                     a.rule = "range" /\ a.col = entry.col /\ a.checked = cm[f]

\* C19: once the rules of an original column have run over a summary with
\* rows, each of its count, sum and mean columns has an outlier verdict
\* column, and so has its nunique column when the original column is
\* ScientificName
C19_OutlierApplies ==
    pc = "qa" /\ cur.qi > 0 /\ Len(cur.q.df.rows) > 0 =>
        LET entry == cur.w.funcs[cur.qi]
            cm == ColMap(cur.w.summary_df, entry)
            due == ({"count", "sum", "mean"} \cap DOMAIN cm)
                   \cup (IF entry.col = "ScientificName"
                         THEN {"nunique"} \cap DOMAIN cm ELSE {})
        IN  \A f \in due :
               \E a \in Range(cur.q.applied) :
                  /\ a.rule = "outliers"
                  /\ a.col = entry.col
                  /\ a.checked = cm[f]
                  /\ a.qa \in Cols(cur.q.df)

\* C20: in an outlier column of a count column a row whose count is null or
\* zero reads "no data", and in an outlier column of any other column a row
\* whose value is null reads "no data"
C20_OutlierNoData ==
    pc = "qa" =>
        \A a \in Range(cur.q.applied) :
            a.rule = "outliers" /\ a.qa \in Cols(cur.q.df) =>
                \A k \in 1..Len(cur.q.df.rows) :
                    LET v == cur.q.df.rows[k][a.checked]
                        empty == IF EndsWith(a.checked, "\nrecords")
                                 THEN IsNull(v) \/ CellIsZero(v)
                                 ELSE IsNull(v)
                    IN  empty => cur.q.df.rows[k][a.qa] = Str("no data")

(***************************************************************************)
(* Claims about further rules, the join order and the frame of a run       *)
(***************************************************************************)

\* C21: a summary that counts both QuadratPlotID and a SoilMoisture column
\* does not raise and ends with a verdict column reading the checkmark where
\* the two counts agree and a mismatch text where they differ; without the
\* QuadratPlotID count the rule is skipped and the summary does not raise
C21_SoilMoistureCheck ==
    (pc = "qa" \/ pc = "raised") /\ DOMAIN cur # {} /\ si < Len(config0) =>
        LET def == config0[si + 1]
            soil == {i \in 1..Len(def.summary) :
                        /\ Contains(def.summary[i].col, "SoilMoisture")
                        /\ "count" \in Range(def.summary[i].fs)}
            plot == {i \in 1..Len(def.summary) : def.summary[i].col = "QuadratPlotID"}
            rows == cur.q.df.rows
        IN  soil # {} /\ cur.name = def.name =>
               /\ pc # "raised"
               /\ cur.qi = Len(cur.w.funcs)
                  /\ (\E i \in plot : "count" \in Range(def.summary[i].fs))
                  => \A i \in soil :
                        \E c \in Cols(cur.q.df) \ Cols(cur.w.summary_df) :
                           \A k \in 1..Len(rows) :
                              /\ rows[k][c].k = "str"
                              /\ rows[k][c].s # ""
                              /\ rows[k][c] = Str(Checkmark)
                                 <=> rows[k][def.summary[i].col \o "\nrecords"]
                                     = rows[k]["QuadratPlotID\nrecords"]

\* C22: when a date column is aggregated with min and max, the annotated
\* table has a verdict column reading "long survey (<days> days)" where
\* max - min exceeds 7 days and the checkmark elsewhere
C22_DateRangeCheck ==
    pc = "qa" /\ cur.qi = Len(cur.w.funcs) =>
        LET rows == cur.q.df.rows
            Day(v) == CASE v = Str("2026-03-01") -> 1
                        [] v = Str("2026-03-05") -> 5
                        [] v = Str("2026-03-09") -> 9
                        [] OTHER -> 20
            Span(r) == Day(r["VisitDate\nmax"]) - Day(r["VisitDate\nmin"])
        IN  \A i \in 1..Len(cur.w.funcs) :
               cur.w.funcs[i].col = "VisitDate"
               /\ {"min", "max"} \subseteq Range(cur.w.funcs[i].fs)
               => \E c \in Cols(cur.q.df) \ Cols(cur.w.summary_df) :
                     \A k \in 1..Len(rows) :
                        rows[k][c] =
                           IF Span(rows[k]) > 7
                           THEN Str("long survey (" \o ToString(Span(rows[k])) \o " days)")
                           ELSE Str(Checkmark)

\* C23: when several original columns are each aggregated with count, the
\* first of them is the reference and every other one has a verdict column
\* reading the checkmark where its count equals the reference's count and
\* "mismatched" where it differs
C23_CountsConsistent ==
    pc = "qa" /\ cur.qi = Len(cur.w.funcs) =>
        LET rows == cur.q.df.rows
            counted == {i \in 1..Len(cur.w.funcs) :
                           "count" \in DOMAIN ColMap(cur.w.summary_df, cur.w.funcs[i])}
            Records(i) == ColMap(cur.w.summary_df, cur.w.funcs[i])["count"]
        IN  \A i, j \in counted :
               (\A h \in counted : i <= h) /\ i # j =>
                  \E c \in Cols(cur.q.df) \ Cols(cur.w.summary_df) :
                     \A k \in 1..Len(rows) :
                        rows[k][c] = IF rows[k][Records(j)] = rows[k][Records(i)]
                                     THEN Str(Checkmark) ELSE Str("mismatched")

\* C24: in the range check of a max column, a row whose value is 0 reads
\* "{col}_{func} is 0" and not the checkmark
C24_RangeMaxZero ==
    pc = "qa" /\ cur.qi > 0 =>
        \A a \in Range(cur.q.applied) :
            /\ a.rule = "range"
            /\ a.col = cur.w.funcs[cur.qi].col
            /\ a.checked = a.col \o "\nmax"
            => \A k \in 1..Len(cur.q.df.rows) :
                  CellIsZero(cur.q.df.rows[k][a.checked]) =>
                     cur.q.df.rows[k][a.qa] = Str(a.col \o "_max is 0")

\* C25: joining is one ordered pass.  The right operand of a merge is the
\* result of an earlier merge whose left table it names, and the workbook's
\* table when there is none; so when {C: join B} comes before {B: join A},
\* C's joined table is the merge with the workbook's B, whatever B's own
\* JoinSpec adds to B afterwards
C25_JoinSinglePass ==
    /\ \A j \in 1..Len(joinlog) :
          joinlog[j].rightOperand =
             IF \E i \in 1..(j - 1) : joinlog[i].left = joinlog[j].right
             THEN joinlog[CHOOSE i \in 1..(j - 1) :
                             joinlog[i].left = joinlog[j].right].result
             ELSE dfs[joinlog[j].right]
    /\ pc = "done" =>
          \A i, j \in 1..Len(joinlog) :
             i < j /\ joinlog[i].right = joinlog[j].left =>
                /\ joined_dfs[joinlog[i].left] =
                      Merge(joinlog[i].leftOperand, dfs[joinlog[i].right],
                            SpecOf(joinlog[i].left).on, SpecOf(joinlog[i].left).how)
                /\ joined_dfs[joinlog[j].left] = joinlog[j].result

\* C25 witness: the run {C: join B}, {B: join A} has returned; B holds A's
\* column a and C, joined with the workbook's B, holds no column of A
C25_Witness ==
    /\ pc = "done"
    /\ Len(joinlog) = 2
    /\ joinlog[1].left = "C" /\ joinlog[1].right = "B"
    /\ joinlog[2].left = "B" /\ joinlog[2].right = "A"
    /\ "a" \in Cols(joined_dfs["B"])
    /\ "a" \notin Cols(dfs["B"])
    /\ "b" \in Cols(joined_dfs["C"])
    /\ "a_y" \notin Cols(joined_dfs["C"])
    /\ Cols(joined_dfs["C"]) \subseteq Cols(dfs["C"]) \cup Cols(dfs["B"])

\* C26: summary generation leaves the configuration as it was given: the
\* function mapping of every SummaryDef stays as declared, and a SummaryDef
\* aggregated over 50 or fewer groups uses its declared functions, whatever
\* the groups processed before
C26_ConfigUnchanged ==
    /\ \A i \in 1..Len(summaries_config) :
          summaries_config[i].summary = config0[i].summary
    /\ pc = "qa" /\ cur.w.num_groups <= GroupThreshold =>
          cur.w.funcs = config0[si + 1].summary

\* C27: after the substitution of [SamplePointName, TransectID] for
\* SamplingUnitID the groups of the output hold every row of the filtered
\* table, a null point or transect counting under "Missing": the sizes of
\* the groups add up to the number of rows
C27_RemediationKeepsRows ==
    pc = "qa" /\ cur.w.remediated =>
        LET by == cur.w.group_by
            Filled(v) == IF IsNull(v) THEN Str("Missing") ELSE v
            KeyOfRow(r) == [j \in 1..Len(by) |-> Filled(r[by[j]])]
            Size(g) == Cardinality({i \in 1..Len(cur.w.filtered.rows) :
                                       KeyOfRow(cur.w.filtered.rows[i]) = KeyOfRow(g)})
            sizes == [k \in 1..Len(cur.w.summary_df.rows) |->
                         Num(Size(cur.w.summary_df.rows[k]))]
        IN  SumCells(sizes) = Num(Len(cur.w.filtered.rows))

\* C28: a FilterSpec whose terms are all "is null" or "is not null" (in any
\* case) on columns of the table gives, without raising, the table's columns
\* and exactly the rows that satisfy every term, in the table's row order
C28_NullSentinels ==
    [][pc = "summaries" /\ pc' # "summaries" /\ si < Len(summaries_config) =>
          LET def == summaries_config[si + 1]
              table == joined_dfs[def.table]
              IsSentinel(t) ==
                  /\ t.cond.kind = "str"
                  /\ Lower(t.cond.text) \in {"is null", "is not null"}
                  /\ t.col \in Cols(table)
              Holds(t, r) == IsNull(r[t.col]) <=> Lower(t.cond.text) = "is null"
          IN  /\ def.hasFilter
              /\ def.filter # <<>>
              /\ \A j \in 1..Len(def.filter) : IsSentinel(def.filter[j])
              => /\ ~cur'.w.filterRaised
                 /\ cur'.w.filtered.cols = table.cols
                 /\ cur'.w.filtered.rows =
                       SelectSeq(table.rows,
                                 LAMBDA r : \A j \in 1..Len(def.filter) :
                                               Holds(def.filter[j], r))]_vars

\* C28 witness: of two rows with a null sample point, the terms TransectID
\* "IS NOT NULL" and SamplePointName "is null" keep the one with a transect
C28_Witness ==
    /\ pc = "qa"
    /\ gi = 0
    /\ si = 0
    /\ Len(config0[1].filter) = 2
    /\ config0[1].filter[1].cond.text = "IS NOT NULL"
    /\ Len(joined0["Survey"].rows) = 2
    /\ \A i \in 1..2 : IsNull(joined0["Survey"].rows[i]["SamplePointName"])
    /\ Len(cur.w.filtered.rows) = 1
    /\ ~IsNull(cur.w.filtered.rows[1]["TransectID"])

\* C29: rendering the PDF report leaves the summary tables as the engine
\* produced them: after the report of a group, the mapping holds the tables
\* that generate_effort_summaries returned, cell for cell
C29_ReportReadsOnly ==
    pc = "main" /\ gi > 0 => summary_tables = delivered[gi]

\* C30: a range-check violation text "{col}_{func} ..." names the function
\* of the column whose value was tested, also when the original column's
\* name contains sum, max or min and when the column has both min and max
C30_RangeLabelIsFunction ==
    pc = "qa" /\ cur.qi > 0 =>
        \A a \in Range(cur.q.applied) :
            a.rule = "range" /\ a.col = cur.w.funcs[cur.qi].col =>
                \A k \in 1..Len(cur.q.df.rows) :
                    LET verdict == cur.q.df.rows[k][a.qa].s
                    IN  verdict # Checkmark =>
                           \E f \in {"sum", "max", "min"} :
                              /\ a.checked = a.col \o "\n" \o f
                              /\ verdict \in {a.col \o "_" \o f \o text :
                                                 text \in {" negative", " > 101%",
                                                           " missing"}}

====
